---- MODULE Spec2Model ----
(***************************************************************************)
(* A model of the IPSet container of IBM/netaddr: the disjoint-CIDR tree   *)
(* (iptree.go), the CIDR arithmetic it uses (net_utils.go) and the IPSet   *)
(* operations built on them (ipset.go).                                    *)
(*                                                                         *)
(* Addresses are scaled down from 32/128 bits to AddrBits bits.  An        *)
(* address is a natural number below 2^bits (its big-endian value), a      *)
(* network (a net.IPNet) is a record [IP, ones, bits]: the address, the    *)
(* number of leading ones of its CIDR mask and the width of the family.    *)
(* Tree nodes live in a heap, a sequence of records [net, left, right,     *)
(* up]; a pointer is an index into the heap and nil is 0.                  *)
(***************************************************************************)
EXTENDS Integers, Sequences, FiniteSets, TLC

\* Width, in bits, of the addresses of the modelled family.
AddrBits == 3

\* The prefixes handed to the operations lie inside the first MaxAddr addresses.
MaxAddr == 5

\* Number of InsertNet/RemoveNet calls made on the two operands of SpecAlg.
MaxOps == 5

\* The prefixes handed to the operands of SpecAlg lie inside the first
\* MaxAlgAddr addresses.
MaxAlgAddr == 4

\* Bits in a byte of a net.IP (8 in Go).
ByteBits == 1

\* Bytes in an address of the shorter family (net.IPv4len, 4 in Go).
IPv4len == 2

\* Bytes in an address of the longer family (net.IPv6len, 16 in Go).
IPv6len == 3

\* The IPMap is given the addresses below MaxMapAddr and the prefixes that
\* lie inside them, of either family.
MaxMapAddr == 4

\* Number of calls on the IPMap that can change it.
MaxMapOps == 2

\* Number of entries of the IPMap that Iterate and Aggregate walk.
MaxAggOps == 3

\* Number of InsertPrefix calls that fill the IPMap of SpecRound.
MaxRoundOps == 2

\* Number of InsertNet calls made on the three sets of SpecAssoc.
MaxAssocOps == 4

\* Number of InsertNet/RemoveNet calls made in SpecShare, on the two operands
\* and then on the result of their Union or Difference.
MaxShareOps == 3

\* The nil pointer.
nil == 0

VARIABLES
    heap,     \* the nodes reachable from the IPSet `me`
    tree,     \* me.tree: the root pointer of the IPSet `me`
    other,    \* a second IPSet, [heap, tree]: the operand of Union and Difference
    newSet,   \* the IPSet returned by the last Union or Difference, [heap, tree]
    called,   \* the set operation that returned newSet: "none", "Union", "Difference"
    nops,     \* number of InsertNet/RemoveNet calls made so far in SpecAlg
    mem,      \* SpecShare: one heap holding the nodes of three IPSets
    roots,    \* SpecShare: [me, other, newSet], the tree pointers of the three IPSets
    phase,    \* SpecShare: "build", then "Union" or "Difference" once it was called
    shareOps, \* SpecShare: number of InsertNet/RemoveNet calls made so far
    third,    \* SpecAssoc: a third IPSet, [heap, tree]
    unions,   \* SpecAssoc: the walks of the four unions once they were computed
    assocOps, \* SpecAssoc: number of InsertNet calls made so far
    ipmap,    \* an IPMap, [length, trie]
    ret,      \* what the last call on ipmap was given and what it returned
    mapOps,   \* number of calls made so far that can change ipmap
    call      \* SpecNet: the last call of a function of net_utils.go, [fn, args, out]

\* The variables of SpecShare.
shareVars == <<mem, roots, phase, shareOps>>

\* The variables the specifications of the IPSet `me` leave alone.
\* The variables of SpecAssoc besides heap, tree and other.
assocVars == <<third, unions, assocOps>>

\* The variables of the specifications of the IPMap.
mapVars == <<ipmap, ret, mapOps>>

moreVars == <<shareVars, assocVars, mapVars, call>>

\* The variables SpecShare leaves alone.
offShare == <<heap, tree, other, newSet, called, nops, assocVars, mapVars, call>>

\* The variables SpecAssoc leaves alone.
offAssoc == <<newSet, called, nops, shareVars, mapVars, call>>

\* The variables the specifications of the IPMap leave alone.
offMap == <<heap, tree, other, newSet, called, nops, shareVars, assocVars, call>>

\* The variables SpecNet leaves alone.
offNet == <<heap, tree, other, newSet, called, nops, shareVars, assocVars, mapVars>>

vars == <<heap, tree, other, newSet, called, nops, moreVars>>

--------------------------------------------------------------------------
(* Bit arithmetic on addresses.                                            *)

\* The element of a one-element set.  { e(x) : x \in { v } } is the set of
\* the one value of e with x bound to the value of v, so that a value a
\* statement of the code computes once is computed once here.
The(S) == CHOOSE x \in S : TRUE

RECURSIVE Pow2(_)
Pow2(n) == IF n <= 0 THEN 1 ELSE 2 * Pow2(n - 1)

Min(a, b) == IF a <= b THEN a ELSE b

\* ip & CIDRMask(ones, bits): the address with the bits at positions >= ones cleared.
MaskIP(ip, ones, bits) == (ip \div Pow2(bits - ones)) * Pow2(bits - ones)

\* The bit of weight 2^(bits-1-k), k counted from the most significant bit.
BitAt(ip, k, bits) == (ip \div Pow2(bits - 1 - k)) % 2

\* bytes.Compare on two addresses: -1, 0 or 1.  Addresses of one width compare
\* as numbers; of two widths, on their common leading part, then the shorter
\* one is the smaller.
bytesCompare(ip1, bits1, ip2, bits2) ==
    LET m == Min(bits1, bits2)
        a == ip1 \div Pow2(bits1 - m)
        b == ip2 \div Pow2(bits2 - m)
    IN  IF a < b THEN -1
        ELSE IF a > b THEN 1
        ELSE IF bits1 < bits2 THEN -1
        ELSE IF bits1 > bits2 THEN 1
        ELSE 0

\* The length in bits of the addresses of the second family, the one of the
\* 16-byte addresses where AddrBits is the one of the 4-byte addresses.
WideBits == AddrBits + 1

\* A 16-byte address that holds a 4-byte one (::ffff:a.b.c.d): here an
\* address of the second family whose bits before the last AddrBits are ones.
isV4Mapped(ip, bits) ==
    bits = WideBits /\ ip \div Pow2(AddrBits) = Pow2(WideBits - AddrBits) - 1

\* net.IP.To4 where it is not nil, and the address itself where it is:
\* a 4-byte address as it is, the 4-byte address a 16-byte one holds.
To4OrSelf(ip, bits) ==
    IF isV4Mapped(ip, bits) THEN [ip |-> ip % Pow2(AddrBits), bits |-> AddrBits]
    ELSE [ip |-> ip, bits |-> bits]

\* net.IPNet.Contains: the masked network number equals the masked address,
\* both taken as 4-byte addresses where To4 makes them so, the mask of a
\* 16-byte network number that To4 converts being cut to its last 4 bytes;
\* addresses of two lengths are not contained.  A nil mask (ones < 0, from
\* CIDRMask with a negative length) contains nothing.
IPNetContains(n, ip, ipbits) ==
    IF n.bits = AddrBits /\ ipbits = AddrBits
    THEN /\ n.ones >= 0
         /\ n.ones <= n.bits
         /\ MaskIP(n.IP, n.ones, n.bits) = MaskIP(ip, n.ones, n.bits)
    ELSE The({ /\ n.ones >= 0
               /\ n.ones <= n.bits
               /\ nn.bits = x.bits
               /\ The({ MaskIP(nn.ip, ones, nn.bits) = MaskIP(x.ip, ones, nn.bits) :
                        ones \in { IF nn.bits = n.bits THEN n.ones
                                   ELSE IF n.ones > n.bits - nn.bits
                                   THEN n.ones - (n.bits - nn.bits)
                                   ELSE 0 } }) :
               nn \in { To4OrSelf(n.IP, n.bits) }, x \in { To4OrSelf(ip, ipbits) } })

\* net.IP.Equal: the same bytes, or a 4-byte address and the 16-byte address
\* that holds it.
IPEqual(ip1, bits1, ip2, bits2) ==
    IF bits1 = bits2 THEN ip1 = ip2
    ELSE To4OrSelf(ip1, bits1) = To4OrSelf(ip2, bits2)

--------------------------------------------------------------------------
(* net_utils.go                                                            *)

containsNet(net1, net2) ==
    IF net1.bits # net2.bits THEN FALSE
    ELSE IF ~IPNetContains(net1, net2.IP, net2.bits) THEN FALSE
    ELSE IF ~IPEqual(net1.IP, net1.bits, net2.IP, net2.bits) THEN TRUE
    ELSE net1.ones <= net2.ones

\* divideNetInHalf without the extra one: the second half starts where the
\* first does.
divideNetInHalfNoExtraOne(n) ==
    << [IP |-> n.IP, ones |-> n.ones + 1, bits |-> n.bits],
       [IP |-> MaskIP(n.IP, n.ones + 1, n.bits), ones |-> n.ones + 1, bits |-> n.bits] >>

\* The two halves of n, as <<first, second>>.  The first half keeps n.IP as it
\* is; the second is n.IP with the new mask bit set, masked by the new mask.
divideNetInHalf(n) ==
    LET ones == n.ones + 1
        withOne == IF BitAt(n.IP, n.ones, n.bits) = 1 THEN n.IP
                   ELSE n.IP + Pow2(n.bits - 1 - n.ones)
    IN  << [IP |-> n.IP, ones |-> ones, bits |-> n.bits],
           [IP |-> MaskIP(withOne, ones, n.bits), ones |-> ones, bits |-> n.bits] >>

\* netDifference that puts the half it keeps after the CIDRs of the other half.
RECURSIVE netDifferenceSmallestFirst(_, _)
netDifferenceSmallestFirst(a, b) ==
    IF a.bits # b.bits THEN << a >>
    ELSE IF containsNet(b, a) THEN << >>
    ELSE IF ~containsNet(a, b) THEN << a >>
    ELSE The({ IF bytesCompare(b.IP, b.bits, halves[2].IP, halves[2].bits) < 0
               THEN netDifferenceSmallestFirst(halves[1], b) \o << halves[2] >>
               ELSE netDifferenceSmallestFirst(halves[2], b) \o << halves[1] >> :
               halves \in { divideNetInHalf(a) } })

RECURSIVE netDifference(_, _)
netDifference(a, b) ==
    IF a.bits # b.bits THEN << a >>
    ELSE IF containsNet(b, a) THEN << >>
    ELSE IF ~containsNet(a, b) THEN << a >>
    ELSE The({ IF bytesCompare(b.IP, b.bits, halves[2].IP, halves[2].bits) < 0
               THEN << halves[2] >> \o netDifference(halves[1], b)
               ELSE << halves[1] >> \o netDifference(halves[2], b) :
               halves \in { divideNetInHalf(a) } })

\* [ok, net]: net is meaningful only when ok.
canCombineNets(a, b) ==
    LET newNet == [IP |-> a.IP, ones |-> a.ones - 1, bits |-> a.bits]
    IN  IF IPEqual(a.IP, a.bits, b.IP, b.bits) THEN [ok |-> FALSE, net |-> newNet]
        ELSE IF a.ones # b.ones \/ a.bits # b.bits THEN [ok |-> FALSE, net |-> newNet]
        ELSE [ok |-> IPNetContains(newNet, b.IP, b.bits), net |-> newNet]

ipToNet(ip, bits) == [IP |-> ip, ones |-> bits, bits |-> bits]

NetworkAddr(n) == n.IP

\* n.IP[i] | ^n.Mask[i] in every byte: the bits of n.IP under the mask, and
\* every bit beyond it set.
BroadcastAddr(n) == MaskIP(n.IP, n.ones, n.bits) + (Pow2(n.bits - n.ones) - 1)

incrementIP(ip, bits) == (ip + 1) % Pow2(bits)

\* The value of a byte, and the number that the bytes of an address spell,
\* the first byte the most significant.
Bytes == 0..(Pow2(ByteBits) - 1)

RECURSIVE bytesValue(_)
bytesValue(ip) ==
    IF ip = << >> THEN 0
    ELSE bytesValue(SubSeq(ip, 1, Len(ip) - 1)) * Pow2(ByteBits) + ip[Len(ip)]

\* The loop of incrementIP with a carry that is never taken back.
RECURSIVE incrementLoopAlwaysCarry(_, _, _, _)
incrementLoopAlwaysCarry(ip, result, i, carry) ==
    IF i < 1 THEN [ip |-> ip, result |-> result]
    ELSE incrementLoopAlwaysCarry(ip, [result EXCEPT ![i] = (ip[i] + 1) % Pow2(ByteBits)],
                                  i - 1, carry)

\* The loop of incrementIP, lines 111-119, on the slices ip and result from
\* the byte i down to the first: [ip, result] after it.  A byte that is
\* incremented past its largest value is 0.
RECURSIVE incrementLoop(_, _, _, _)
incrementLoop(ip, result, i, carry) ==
    IF i < 1 THEN [ip |-> ip, result |-> result]
    ELSE The({ incrementLoop(ip, [result EXCEPT ![i] = b], i - 1, carry /\ b = 0) :
               b \in { IF carry THEN (ip[i] + 1) % Pow2(ByteBits) ELSE ip[i] } })

\* incrementIP on the bytes of the address: result is a new slice of 16
\* bytes, or of 4 when ip has 4.  [ip, result]: the argument after the call
\* and the address returned.
incrementIPBytes(ip) ==
    incrementLoop(ip,
                  [i \in 1..(IF Len(ip) = IPv4len THEN IPv4len ELSE IPv6len) |-> 0],
                  Len(ip), TRUE)

\* 1 << 30, the cap of expandNet.
MaxExpand == 1073741824

\* The largest int: int(^uint(0) >> 1) where int has 32 bits.
MaxInt == 2147483647

RECURSIVE expandFrom(_, _, _)
expandFrom(ip, bits, size) ==
    IF size <= 0 THEN << >>
    ELSE << ip >> \o expandFrom(incrementIP(ip, bits), bits, size - 1)

expandNet(n, limit) ==
    LET max == IF n.bits - n.ones < 30 THEN Pow2(n.bits - n.ones) ELSE MaxExpand
        size == IF max < limit THEN max ELSE limit
    IN  expandFrom(n.IP, n.bits, size)

--------------------------------------------------------------------------
(* iptree.go: every operation that writes the tree takes the heap and      *)
(* returns [h, ret]: the heap after the call and the returned pointer.     *)

NewNode(n) == [net |-> n, left |-> nil, right |-> nil, up |-> nil]

setLeft(h, me, child) ==
    LET old == h[me].left
        h1 == IF old # nil /\ h[old].up = me THEN [h EXCEPT ![old].up = nil] ELSE h
        h2 == [h1 EXCEPT ![me].left = child]
    IN  IF child # nil THEN [h2 EXCEPT ![child].up = me] ELSE h2

setRight(h, me, child) ==
    LET old == h[me].right
        h1 == IF old # nil /\ h[old].up = me THEN [h EXCEPT ![old].up = nil] ELSE h
        h2 == [h1 EXCEPT ![me].right = child]
    IN  IF child # nil THEN [h2 EXCEPT ![child].up = me] ELSE h2

RECURSIVE trimLeft(_, _, _)
trimLeft(h, me, top) ==
    IF me = nil THEN [h |-> h, ret |-> nil]
    ELSE IF containsNet(h[top].net, h[me].net) THEN trimLeft(h, h[me].left, top)
    ELSE The({ [h |-> setRight(r.h, me, r.ret), ret |-> me] :
               r \in { trimLeft(h, h[me].right, top) } })

RECURSIVE trimRight(_, _, _)
trimRight(h, me, top) ==
    IF me = nil THEN [h |-> h, ret |-> nil]
    ELSE IF containsNet(h[top].net, h[me].net) THEN trimRight(h, h[me].right, top)
    ELSE The({ [h |-> setLeft(r.h, me, r.ret), ret |-> me] :
               r \in { trimRight(h, h[me].left, top) } })

\* insert descending to the wrong side.
RECURSIVE insertWrongSide(_, _, _)
insertWrongSide(h, me, newNode) ==
    IF me = nil THEN [h |-> h, ret |-> newNode]
    ELSE IF containsNet(h[me].net, h[newNode].net) THEN [h |-> h, ret |-> me]
    ELSE IF containsNet(h[newNode].net, h[me].net)
    THEN The({ [h |-> setRight(r.h, newNode, r.ret), ret |-> newNode] :
               r \in { trimRight(h1, h1[me].right, newNode) :
                 h1 \in { setLeft(l.h, newNode, l.ret) :
                   l \in { trimLeft(h, h[me].left, newNode) } } } })
    ELSE IF bytesCompare(h[newNode].net.IP, h[newNode].net.bits,
                         h[me].net.IP, h[me].net.bits) > 0
    THEN The({ [h |-> setLeft(r.h, me, r.ret), ret |-> me] :
               r \in { insertWrongSide(h, h[me].left, newNode) } })
    ELSE The({ [h |-> setRight(r.h, me, r.ret), ret |-> me] :
               r \in { insertWrongSide(h, h[me].right, newNode) } })

\* insert without the look whether the node's CIDR contains the new one.
RECURSIVE insertNoHeldCheck(_, _, _)
insertNoHeldCheck(h, me, newNode) ==
    IF me = nil THEN [h |-> h, ret |-> newNode]
    ELSE IF containsNet(h[newNode].net, h[me].net)
    THEN The({ [h |-> setRight(r.h, newNode, r.ret), ret |-> newNode] :
               r \in { trimRight(h1, h1[me].right, newNode) :
                 h1 \in { setLeft(l.h, newNode, l.ret) :
                   l \in { trimLeft(h, h[me].left, newNode) } } } })
    ELSE IF bytesCompare(h[newNode].net.IP, h[newNode].net.bits,
                         h[me].net.IP, h[me].net.bits) < 0
    THEN The({ [h |-> setLeft(r.h, me, r.ret), ret |-> me] :
               r \in { insertNoHeldCheck(h, h[me].left, newNode) } })
    ELSE The({ [h |-> setRight(r.h, me, r.ret), ret |-> me] :
               r \in { insertNoHeldCheck(h, h[me].right, newNode) } })

RECURSIVE insert(_, _, _)
insert(h, me, newNode) ==
    IF me = nil THEN [h |-> h, ret |-> newNode]
    ELSE IF containsNet(h[me].net, h[newNode].net) THEN [h |-> h, ret |-> me]
    ELSE IF containsNet(h[newNode].net, h[me].net)
    THEN The({ [h |-> setRight(r.h, newNode, r.ret), ret |-> newNode] :
               r \in { trimRight(h1, h1[me].right, newNode) :
                 h1 \in { setLeft(l.h, newNode, l.ret) :
                   l \in { trimLeft(h, h[me].left, newNode) } } } })
    ELSE IF bytesCompare(h[newNode].net.IP, h[newNode].net.bits,
                         h[me].net.IP, h[me].net.bits) < 0
    THEN The({ [h |-> setLeft(r.h, me, r.ret), ret |-> me] :
               r \in { insert(h, h[me].left, newNode) } })
    ELSE The({ [h |-> setRight(r.h, me, r.ret), ret |-> me] :
               r \in { insert(h, h[me].right, newNode) } })

\* contains takes the network of the node that ContainsNet builds for the query.
RECURSIVE contains(_, _, _)
contains(h, me, n) ==
    IF me = nil THEN FALSE
    ELSE IF containsNet(h[me].net, n) THEN TRUE
    ELSE IF containsNet(n, h[me].net) THEN FALSE
    ELSE IF bytesCompare(n.IP, n.bits, h[me].net.IP, h[me].net.bits) < 0
    THEN contains(h, h[me].left, n)
    ELSE contains(h, h[me].right, n)

RECURSIVE first(_, _)
first(h, me) ==
    IF me = nil THEN nil
    ELSE IF h[me].left = nil THEN me
    ELSE first(h, h[me].left)

RECURSIVE leftMost(_, _)
leftMost(h, n) == IF h[n].left # nil THEN leftMost(h, h[n].left) ELSE n

RECURSIVE rightMost(_, _)
rightMost(h, n) == IF h[n].right # nil THEN rightMost(h, h[n].right) ELSE n

RECURSIVE nextUp(_, _)
nextUp(h, n) ==
    IF h[n].up = nil THEN nil
    ELSE IF h[h[n].up].left = n THEN h[n].up
    ELSE nextUp(h, h[n].up)

RECURSIVE prevUp(_, _)
prevUp(h, n) ==
    IF h[n].up = nil THEN nil
    ELSE IF h[h[n].up].right = n THEN h[n].up
    ELSE prevUp(h, h[n].up)

next(h, me) == IF h[me].right # nil THEN leftMost(h, h[me].right) ELSE nextUp(h, me)

prev(h, me) == IF h[me].left # nil THEN rightMost(h, h[me].left) ELSE prevUp(h, me)

replaceMe(h, me, newChild) ==
    IF h[me].up # nil
    THEN IF h[h[me].up].left = me
         THEN [h |-> setLeft(h, h[me].up, newChild), ret |-> newChild]
         ELSE [h |-> setRight(h, h[me].up, newChild), ret |-> newChild]
    ELSE [h |-> h, ret |-> newChild]

RECURSIVE remove(_, _)
remove(h, me) ==
    IF h[me].left # nil /\ h[me].right # nil
    THEN The({ [h |-> r.h, ret |-> me] :
               r \in { remove(h1.h, h1.nx) :
                 h1 \in { [h |-> [h EXCEPT ![me].net = h[nx].net], nx |-> nx] :
                   nx \in { next(h, me) } } } })
    ELSE IF h[me].left # nil THEN replaceMe(h, me, h[me].left)
    ELSE IF h[me].right # nil THEN replaceMe(h, me, h[me].right)
    ELSE replaceMe(h, me, nil)

\* The loop `for _, n := range diff[1:] { top = top.insert(&ipTree{net: n}) }`.
RECURSIVE insertAll(_, _, _)
insertAll(h, top, nets) ==
    IF nets = << >> THEN [h |-> h, ret |-> top]
    ELSE The({ insertAll(r.h, r.ret, Tail(nets)) :
               r \in { insert(Append(h, NewNode(Head(nets))), top, Len(h) + 1) } })

RECURSIVE removeNet(_, _, _)

\* removeNet, first statement: `me.left = me.left.removeNet(net)` when net
\* starts before me.net.  The heap after it.
RECURSIVE removeNetLeft(_, _, _)
removeNetLeft(h, me, n) ==
    IF bytesCompare(n.IP, n.bits, h[me].net.IP, h[me].net.bits) < 0
    THEN The({ [r.h EXCEPT ![me].left = r.ret] :
               r \in { removeNet(h, h[me].left, n) } })
    ELSE h

\* removeNet, second statement: `me.right = me.right.removeNet(net)` when a
\* CIDR of net - me.net comes after me.net.  The heap after it.
RECURSIVE removeNetRight(_, _, _)
removeNetRight(h, me, n) ==
    IF \E d \in { netDifference(n, h[me].net) } :
          \E i \in 1..Len(d) :
             bytesCompare(h[me].net.IP, h[me].net.bits, d[i].IP, d[i].bits) < 0
    THEN The({ [r.h EXCEPT ![me].right = r.ret] :
               r \in { removeNet(h, h[me].right, n) } })
    ELSE h

\* removeNet, last statement: the node itself is removed, or cut to the first
\* CIDR of me.net - net with the other CIDRs inserted, or left as it is.
removeNetHere(h, me, n) ==
    IF containsNet(n, h[me].net) THEN remove(h, me)
    ELSE IF containsNet(h[me].net, n)
    THEN The({ insertAll([h EXCEPT ![me].net = d[1]], me, Tail(d)) :
               d \in { netDifference(h[me].net, n) } })
    ELSE [h |-> h, ret |-> me]

removeNet(h, me, n) ==
    IF me = nil THEN [h |-> h, ret |-> nil]
    ELSE The({ removeNetHere(hR, me, n) :
               hR \in { removeNetRight(hL, me, n) :
                 hL \in { removeNetLeft(h, me, n) } } })

\* The networks of the nodes in the order walk visits them.
RECURSIVE walk(_, _)
walk(h, me) ==
    IF me = nil THEN << >>
    ELSE walk(h, h[me].left) \o << h[me].net >> \o walk(h, h[me].right)

\* The nodes in the order walk visits them.
RECURSIVE walkNodes(_, _)
walkNodes(h, me) ==
    IF me = nil THEN << >>
    ELSE walkNodes(h, h[me].left) \o << me >> \o walkNodes(h, h[me].right)

RECURSIVE size(_, _)
size(h, me) ==
    IF me = nil THEN 0
    ELSE Pow2(h[me].net.bits - h[me].net.ones) + size(h, h[me].left) + size(h, h[me].right)

RECURSIVE numNodes(_, _)
numNodes(h, me) ==
    IF me = nil THEN 0
    ELSE 1 + numNodes(h, h[me].left) + numNodes(h, h[me].right)

--------------------------------------------------------------------------
(* Nodes that no pointer reaches are collected, and the nodes that remain  *)
(* are numbered in the order a traversal from the root meets them, so that *)
(* two heaps that differ only in the addresses of their nodes are one      *)
(* state.                                                                  *)

RECURSIVE Reach(_, _, _)
Reach(h, stack, order) ==
    IF stack = << >> THEN order
    ELSE The({ IF a.n = nil \/ \E i \in 1..Len(a.order) : a.order[i] = a.n
               THEN Reach(h, a.rest, a.order)
               ELSE Reach(h, << h[a.n].left, h[a.n].right, h[a.n].up >> \o a.rest,
                          Append(a.order, a.n)) :
               a \in { [n |-> Head(stack), rest |-> Tail(stack), order |-> order] } })

\* The place of a node in the order, nil for nil.
Index(order, n) ==
    IF n = nil THEN nil ELSE CHOOSE i \in 1..Len(order) : order[i] = n

Compact(h, root) ==
    The({ [heap |-> [i \in 1..Len(order) |->
                      [net |-> h[order[i]].net,
                       left |-> Index(order, h[order[i]].left),
                       right |-> Index(order, h[order[i]].right),
                       up |-> Index(order, h[order[i]].up)]],
           tree |-> Index(order, root)] :
          order \in { Reach(h, << root >>, << >>) } })

--------------------------------------------------------------------------
(* ipset.go: an IPSet is [heap, tree].                                     *)

EmptySet == [heap |-> << >>, tree |-> nil]

\* InsertNet without the look at the previous node.
noCombinePrev(h, newNode, newNet) == newNet

\* InsertNet, lines 28-33: newNet after the try to combine it with the CIDR
\* of the node before newNode.
combinePrev(h, newNode, newNet) ==
    The({ IF p # nil /\ canCombineNets(h[p].net, newNet).ok
          THEN canCombineNets(h[p].net, newNet).net
          ELSE newNet :
          p \in { prev(h, newNode) } })

\* InsertNet without the look at the next node.
noCombineNext(h, newNode, newNet) == newNet

\* InsertNet, lines 34-39: newNet after the try to combine it with the CIDR
\* of the node after newNode.
combineNext(h, newNode, newNet) ==
    The({ IF x # nil /\ canCombineNets(newNet, h[x].net).ok
          THEN canCombineNets(newNet, h[x].net).net
          ELSE newNet :
          x \in { next(h, newNode) } })

\* One pass of the loop of InsertNet and the passes after it; passes counts
\* them.  newNet == newNode.net compares two pointers: it is true iff neither
\* neighbour was combined, and a combined CIDR has another length.
RECURSIVE InsertNetLoop(_, _, _, _)
InsertNetLoop(h, t, newNet, passes) ==
    The({ IF r.ret # r.newNode /\ r.h[r.newNode].up = nil
          THEN [heap |-> r.h, tree |-> r.ret, passes |-> passes]
          ELSE The({ IF n2 = r.h[r.newNode].net
                     THEN [heap |-> r.h, tree |-> r.ret, passes |-> passes]
                     ELSE InsertNetLoop(r.h, r.ret, n2, passes + 1) :
                     n2 \in { combineNext(r.h, r.newNode, n1) :
                       n1 \in { combinePrev(r.h, r.newNode, newNet) } } }) :
          r \in { [h |-> i.h, ret |-> i.ret, newNode |-> Len(h) + 1] :
            i \in { insert(Append(h, NewNode(newNet)), t, Len(h) + 1) } } })

\* The passes of the loop of InsertNet, one record each: the CIDR of the pass,
\* whether insert linked its node into the tree, and whether canCombineNets
\* combines the CIDR of the node before it, and of the node after it, with
\* the CIDR of the node.
RECURSIVE InsertNetPasses(_, _, _)
InsertNetPasses(h, t, newNet) ==
    The({ IF r.ret # r.newNode /\ r.h[r.newNode].up = nil
          THEN << [net |-> newNet, linked |-> FALSE,
                   prev |-> FALSE, next |-> FALSE] >>
          ELSE The({ << [net |-> newNet, linked |-> TRUE,
                         prev |-> The({ p # nil /\ canCombineNets(r.h[p].net, newNet).ok :
                                        p \in { prev(r.h, r.newNode) } }),
                         next |-> The({ x # nil /\ canCombineNets(newNet, r.h[x].net).ok :
                                        x \in { next(r.h, r.newNode) } })] >>
                     \o (IF n.n2 = r.h[r.newNode].net THEN << >>
                         ELSE InsertNetPasses(r.h, r.ret, n.n2)) :
                     n \in { [n1 |-> n1, n2 |-> combineNext(r.h, r.newNode, n1)] :
                       n1 \in { combinePrev(r.h, r.newNode, newNet) } } }) :
          r \in { [h |-> i.h, ret |-> i.ret, newNode |-> Len(h) + 1] :
            i \in { insert(Append(h, NewNode(newNet)), t, Len(h) + 1) } } })

InsertNet(me, n) ==
    The({ Compact(r.heap, r.tree) :
          r \in { InsertNetLoop(me.heap, me.tree, n, 1) } })

RemoveNet(me, n) ==
    The({ Compact(r.h, r.ret) :
          r \in { removeNet(me.heap, me.tree, n) } })

ContainsNet(me, n) == contains(me.heap, me.tree, n)

Insert(me, ip) == InsertNet(me, ipToNet(ip, AddrBits))

Remove(me, ip) == RemoveNet(me, ipToNet(ip, AddrBits))

Contains(me, ip) == ContainsNet(me, ipToNet(ip, AddrBits))

\* tree.walk(func(node) { newSet.InsertNet(node.net) }) on the CIDRs in walk order.
RECURSIVE InsertNets(_, _)
InsertNets(s, nets) ==
    IF nets = << >> THEN s
    ELSE The({ InsertNets(a.s, a.rest) :
               a \in { [s |-> InsertNet(s, Head(nets)), rest |-> Tail(nets)] } })

\* tree.walk(func(node) { newSet.RemoveNet(node.net) }) on the CIDRs in walk order.
RECURSIVE RemoveNets(_, _)
RemoveNets(s, nets) ==
    IF nets = << >> THEN s
    ELSE The({ RemoveNets(a.s, a.rest) :
               a \in { [s |-> RemoveNet(s, Head(nets)), rest |-> Tail(nets)] } })

Union(me, o) ==
    The({ InsertNets(s, w) :
          s \in { InsertNets(EmptySet, w1) : w1 \in { walk(me.heap, me.tree) } },
          w \in { walk(o.heap, o.tree) } })

Difference(me, o) ==
    The({ RemoveNets(s, w) :
          s \in { InsertNets(EmptySet, w1) : w1 \in { walk(me.heap, me.tree) } },
          w \in { walk(o.heap, o.tree) } })

RECURSIVE GetIPsFrom(_, _, _, _)
GetIPsFrom(h, node, limit, ips) ==
    IF node = nil THEN ips
    ELSE The({ GetIPsFrom(h, a.node, limit, a.ips) :
               a \in { [node |-> next(h, node),
                        ips |-> ips \o expandNet(h[node].net, limit - Len(ips))] } })

GetIPs(me, limit) ==
    GetIPsFrom(me.heap, first(me.heap, me.tree),
               IF limit = 0 THEN MaxInt ELSE limit, << >>)

--------------------------------------------------------------------------
(* The inputs: canonical prefixes and addresses of the family.             *)

Addrs == 0..(Pow2(AddrBits) - 1)

\* The addresses of a network, as net.IPNet.Contains decides them.
AddrsOf(n) == { a \in Addrs : IPNetContains(n, a, AddrBits) }

\* Canonical prefixes: no bit set at or beyond the prefix length.
AllNets == { [IP |-> a, ones |-> o, bits |-> AddrBits] :
                a \in Addrs, o \in 0..AddrBits }

CanonNets == { n \in AllNets : MaskIP(n.IP, n.ones, n.bits) = n.IP }

Nets == { n \in CanonNets : \A a \in AddrsOf(n) : a < MaxAddr }

IPs == { a \in Addrs : a < MaxAddr }

Me == [heap |-> heap, tree |-> tree]

--------------------------------------------------------------------------
(* IPMap: addresses, prefixes and trie keys.  A net.IP is its length in    *)
(* bytes and the number its bytes spell; a *net.IPNet is its IP and the    *)
(* number of ones of its Mask.                                             *)

\* The values stored, the nil interface{} and the untyped false that
\* MatchPrefix and Match return with a nil prefix.
Values == {"true", "false"}

nilValue == "nil"

nilIP == [len |-> 0, ip |-> 0]

nilPrefix == [IP |-> nilIP, ones |-> 0 - 1]

errNil == "nil"

\* NewIP(size): the all-zero address of the family with this size.
NewIP(length) == [len |-> length, ip |-> 0]

\* copy(dst, src) on byte slices: the first Min(len(dst), len(src)) bytes of
\* dst are replaced by those of src.
copy(dst, src) ==
    IF src.len <= dst.len
    THEN [len |-> dst.len,
          ip |-> src.ip * Pow2(ByteBits * (dst.len - src.len))
                 + (dst.ip % Pow2(ByteBits * (dst.len - src.len)))]
    ELSE [len |-> dst.len,
          ip |-> src.ip \div Pow2(ByteBits * (src.len - dst.len))]

ipToKey(ip) == [Length |-> ByteBits * ip.len, Bits |-> ip]

prefixToKey(prefix) == [Length |-> prefix.ones, Bits |-> prefix.IP]

\* keyToPrefix with a mask of the full width whatever the key's length.
keyToHostPrefix(key, length) ==
    [IP |-> copy(NewIP(length), key.Bits), ones |-> ByteBits * length]

keyToPrefix(key, length) ==
    [IP |-> copy(NewIP(length), key.Bits), ones |-> key.Length]

--------------------------------------------------------------------------
(* The trie behind the IPMap, by its contract: a finite map from keys to   *)
(* values.  A key is its Length and its first Length bits; the trie keeps  *)
(* the bytes that hold these bits and no more.                             *)

\* The first n bits of a key, as a number.
keyBits(key, n) == key.Bits.ip \div Pow2(ByteBits * key.Bits.len - n)

\* The key of length n whose bits spell b, in the bytes the trie keeps.
storedKey(n, b) ==
    The({ [Length |-> n,
           Bits |-> [len |-> nbytes, ip |-> b * Pow2(ByteBits * nbytes - n)]] :
          nbytes \in { (n + ByteBits - 1) \div ByteBits } })

\* The key as the trie keeps it.
stored(key) == storedKey(key.Length, keyBits(key, key.Length))

\* k1 is a prefix of k2.
keyContains(k1, k2) ==
    /\ k1.Length <= k2.Length
    /\ keyBits(k1, k1.Length) = keyBits(k2, k1.Length)

emptyTrie == [k \in {} |-> nilValue]

trieSize(t) == Cardinality(DOMAIN t)

triePut(t, k, value) ==
    [x \in DOMAIN t \cup {k} |-> IF x = k THEN value ELSE t[x]]

trieInsert(t, key, value) ==
    IF stored(key) \in DOMAIN t
    THEN [trie |-> t, err |-> "key already exists"]
    ELSE [trie |-> triePut(t, stored(key), value), err |-> errNil]

trieInsertOrUpdate(t, key, value) ==
    [trie |-> triePut(t, stored(key), value), err |-> errNil]

trieGetOrInsert(t, key, value) ==
    IF stored(key) \in DOMAIN t
    THEN [trie |-> t, value |-> t[stored(key)], err |-> errNil]
    ELSE [trie |-> triePut(t, stored(key), value), value |-> value, err |-> errNil]

trieDelete(t, key) == [x \in DOMAIN t \ {stored(key)} |-> t[x]]

\* trie.Match: MatchExact with the key itself, MatchContains with the longest
\* key of the trie that is a prefix of the key, or MatchNone.
trieMatch(t, key) ==
    LET above == { k \in DOMAIN t : keyContains(k, key) }
        best == CHOOSE k \in above : \A x \in above : x.Length <= k.Length
    IN  IF above = {} THEN [match |-> "MatchNone", key |-> stored(key), value |-> nilValue]
        ELSE [match |-> IF best.Length = key.Length THEN "MatchExact" ELSE "MatchContains",
              key |-> best, value |-> t[best]]

\* The keys of the trie at or below the key of length n whose bits spell b.
below(t, n, b) == { k \in DOMAIN t : k.Length >= n /\ keyBits(k, n) = b }

\* trie.Iterate below one key: the entry of the key, then the entries whose
\* next bit is 0, then those whose next bit is 1.
RECURSIVE iterate(_, _, _)
iterate(t, n, b) ==
    IF below(t, n, b) = {} THEN << >>
    ELSE (IF storedKey(n, b) \in DOMAIN t
          THEN << [key |-> storedKey(n, b), value |-> t[storedKey(n, b)]] >>
          ELSE << >>)
         \o iterate(t, n + 1, 2 * b) \o iterate(t, n + 1, 2 * b + 1)

trieIterate(t) == iterate(t, 0, 0)

\* The value inherited where nothing was visited yet.
noData == "none"

\* Whether the entries at and below a key can be visited as that one key,
\* and with which value: an entry of the trie can, with its value; a key that
\* is no entry can when both its halves can, with equal values.
RECURSIVE aggregable(_, _, _)
aggregable(t, n, b) ==
    IF storedKey(n, b) \in DOMAIN t THEN [ok |-> TRUE, value |-> t[storedKey(n, b)]]
    ELSE IF below(t, n, b) = {} THEN [ok |-> FALSE, value |-> noData]
    ELSE The({ IF l.ok /\ r.ok /\ l.value = r.value
               THEN [ok |-> TRUE, value |-> l.value]
               ELSE [ok |-> FALSE, value |-> noData] :
               l \in { aggregable(t, n + 1, 2 * b) },
               r \in { aggregable(t, n + 1, 2 * b + 1) } })

\* trie.Aggregate below one key, data being the value last visited above it:
\* the key is visited when it is aggregable with another value than data,
\* and that value is then inherited below it.
RECURSIVE aggregate(_, _, _, _)
aggregate(t, n, b, data) ==
    IF below(t, n, b) = {} THEN << >>
    ELSE The({ IF a.ok /\ a.value # data
               THEN << [key |-> storedKey(n, b), value |-> a.value] >>
                    \o aggregate(t, n + 1, 2 * b, a.value)
                    \o aggregate(t, n + 1, 2 * b + 1, a.value)
               ELSE aggregate(t, n + 1, 2 * b, data)
                    \o aggregate(t, n + 1, 2 * b + 1, data) :
               a \in { aggregable(t, n, b) } })

trieAggregate(t) == aggregate(t, 0, 0, noData)

--------------------------------------------------------------------------
(* IPMap.                                                                  *)

NewIPv4Map == [length |-> IPv4len, trie |-> emptyTrie]

NewIPv6Map == [length |-> IPv6len, trie |-> emptyTrie]

IPMapSize(m) == trieSize(m.trie)

\* InsertPrefix by way of trie.InsertOrUpdate.
InsertPrefixOrUpdate(m, prefix, value) ==
    IF prefix = nilPrefix THEN [m |-> m, err |-> "cannot insert nil prefix"]
    ELSE IF prefix.IP.len # m.length THEN [m |-> m, err |-> "cannot insert prefix with length"]
    ELSE The({ [m |-> [m EXCEPT !.trie = r.trie], err |-> r.err] :
               r \in { trieInsertOrUpdate(m.trie, prefixToKey(prefix), value) } })

\* InsertPrefix without the check of len(prefix.IP).
InsertPrefixAnyLength(m, prefix, value) ==
    IF prefix = nilPrefix THEN [m |-> m, err |-> "cannot insert nil prefix"]
    ELSE The({ [m |-> [m EXCEPT !.trie = r.trie], err |-> r.err] :
               r \in { trieInsert(m.trie, prefixToKey(prefix), value) } })

InsertPrefix(m, prefix, value) ==
    IF prefix = nilPrefix THEN [m |-> m, err |-> "cannot insert nil prefix"]
    ELSE IF prefix.IP.len # m.length THEN [m |-> m, err |-> "cannot insert prefix with length"]
    ELSE The({ [m |-> [m EXCEPT !.trie = r.trie], err |-> r.err] :
               r \in { trieInsert(m.trie, prefixToKey(prefix), value) } })

IPMapInsert(m, ip, value) ==
    IF ip.len # m.length THEN [m |-> m, err |-> "cannot insert IP with length"]
    ELSE The({ [m |-> [m EXCEPT !.trie = r.trie], err |-> r.err] :
               r \in { trieInsert(m.trie, ipToKey(ip), value) } })

\* InsertOrUpdatePrefix by way of trie.Insert.
InsertOrUpdatePrefixStrict(m, prefix, value) ==
    IF prefix = nilPrefix THEN [m |-> m, err |-> "cannot insert nil prefix"]
    ELSE IF prefix.IP.len # m.length THEN [m |-> m, err |-> "cannot insert prefix with length"]
    ELSE The({ [m |-> [m EXCEPT !.trie = r.trie], err |-> r.err] :
               r \in { trieInsert(m.trie, prefixToKey(prefix), value) } })

InsertOrUpdatePrefix(m, prefix, value) ==
    IF prefix = nilPrefix THEN [m |-> m, err |-> "cannot insert nil prefix"]
    ELSE IF prefix.IP.len # m.length THEN [m |-> m, err |-> "cannot insert prefix with length"]
    ELSE The({ [m |-> [m EXCEPT !.trie = r.trie], err |-> r.err] :
               r \in { trieInsertOrUpdate(m.trie, prefixToKey(prefix), value) } })

InsertOrUpdate(m, ip, value) ==
    IF ip.len # m.length THEN [m |-> m, err |-> "cannot insert IP with length"]
    ELSE The({ [m |-> [m EXCEPT !.trie = r.trie], err |-> r.err] :
               r \in { trieInsertOrUpdate(m.trie, ipToKey(ip), value) } })

\* GetPrefix that takes any match for an exact one.
GetPrefixAnyMatch(m, prefix) ==
    IF prefix = nilPrefix THEN [value |-> nilValue, found |-> FALSE]
    ELSE IF prefix.IP.len # m.length THEN [value |-> nilValue, found |-> FALSE]
    ELSE The({ IF r.match # "MatchNone"
               THEN [value |-> r.value, found |-> TRUE]
               ELSE [value |-> nilValue, found |-> FALSE] :
               r \in { trieMatch(m.trie, prefixToKey(prefix)) } })

GetPrefix(m, prefix) ==
    IF prefix = nilPrefix THEN [value |-> nilValue, found |-> FALSE]
    ELSE IF prefix.IP.len # m.length THEN [value |-> nilValue, found |-> FALSE]
    ELSE The({ IF r.match = "MatchExact"
               THEN [value |-> r.value, found |-> TRUE]
               ELSE [value |-> nilValue, found |-> FALSE] :
               r \in { trieMatch(m.trie, prefixToKey(prefix)) } })

Get(m, ip) ==
    IF ip.len # m.length THEN [value |-> nilValue, found |-> FALSE]
    ELSE The({ IF r.match = "MatchExact"
               THEN [value |-> r.value, found |-> TRUE]
               ELSE [value |-> nilValue, found |-> FALSE] :
               r \in { trieMatch(m.trie, ipToKey(ip)) } })

\* GetOrInsertPrefix that takes any match for the key being present.
GetOrInsertPrefixAnyMatch(m, prefix, value) ==
    IF prefix = nilPrefix
    THEN [m |-> m, value |-> nilValue, err |-> "cannot insert nil prefix"]
    ELSE IF prefix.IP.len # m.length
    THEN [m |-> m, value |-> nilValue, err |-> "cannot insert prefix with length"]
    ELSE The({ IF r.match # "MatchNone"
               THEN [m |-> m, value |-> r.value, err |-> errNil]
               ELSE [m |-> [m EXCEPT !.trie = triePut(m.trie, stored(prefixToKey(prefix)), value)],
                     value |-> value, err |-> errNil] :
               r \in { trieMatch(m.trie, prefixToKey(prefix)) } })

GetOrInsertPrefix(m, prefix, value) ==
    IF prefix = nilPrefix
    THEN [m |-> m, value |-> nilValue, err |-> "cannot insert nil prefix"]
    ELSE IF prefix.IP.len # m.length
    THEN [m |-> m, value |-> nilValue, err |-> "cannot insert prefix with length"]
    ELSE The({ [m |-> [m EXCEPT !.trie = r.trie], value |-> r.value, err |-> r.err] :
               r \in { trieGetOrInsert(m.trie, prefixToKey(prefix), value) } })

GetOrInsert(m, ip, value) ==
    IF ip.len # m.length
    THEN [m |-> m, value |-> nilValue, err |-> "cannot insert IP with length"]
    ELSE The({ [m |-> [m EXCEPT !.trie = r.trie], value |-> r.value, err |-> r.err] :
               r \in { trieGetOrInsert(m.trie, ipToKey(ip), value) } })

MatchPrefix(m, prefix) ==
    IF prefix = nilPrefix THEN [prefix |-> nilPrefix, value |-> "false"]
    ELSE IF prefix.IP.len # m.length THEN [prefix |-> nilPrefix, value |-> "false"]
    ELSE The({ IF r.match = "MatchNone"
               THEN [prefix |-> nilPrefix, value |-> "false"]
               ELSE [prefix |-> keyToPrefix(r.key, m.length), value |-> r.value] :
               r \in { trieMatch(m.trie, prefixToKey(prefix)) } })

Match(m, ip) ==
    IF ip.len # m.length THEN [prefix |-> nilPrefix, value |-> "false"]
    ELSE The({ IF r.match = "MatchNone"
               THEN [prefix |-> nilPrefix, value |-> "false"]
               ELSE [prefix |-> keyToPrefix(r.key, m.length), value |-> r.value] :
               r \in { trieMatch(m.trie, ipToKey(ip)) } })

\* RemovePrefix that deletes the address of the prefix as a host.
RemovePrefixAsHost(m, prefix) ==
    IF prefix = nilPrefix THEN m
    ELSE IF prefix.IP.len # m.length THEN m
    ELSE [m EXCEPT !.trie = trieDelete(m.trie, ipToKey(prefix.IP))]

RemovePrefix(m, prefix) ==
    IF prefix = nilPrefix THEN m
    ELSE IF prefix.IP.len # m.length THEN m
    ELSE [m EXCEPT !.trie = trieDelete(m.trie, prefixToKey(prefix))]

IPMapRemove(m, ip) ==
    IF ip.len # m.length THEN m
    ELSE [m EXCEPT !.trie = trieDelete(m.trie, ipToKey(ip))]

\* A trieCallback that hands the callback a nil value.
trieCallbackNoValue(m, entry) ==
    [prefix |-> keyToPrefix(entry.key, m.length), value |-> nilValue]

\* What trieCallback(m, callback) hands to the callback for an entry.
trieCallback(m, entry) ==
    [prefix |-> keyToPrefix(entry.key, m.length), value |-> entry.value]

\* A trieCallback that returns true whatever the callback returns.
trieCallbackReturnTrue(returned) == TRUE

\* What the function that trieCallback(m, callback) makes returns to the
\* trie: what the callback returned.
trieCallbackReturn(returned) == returned

\* The calls of a callback that returns false at its call number limit, and
\* true before (limit 0: it returns true always), over the entries a walk
\* of the trie comes to: the pairs it was called with, and whether the walk
\* came to its end.
callbacks(m, entries, limit) ==
    The({ IF stops = {}
          THEN [visited |-> [i \in 1..Len(entries) |-> trieCallback(m, entries[i])],
                ok |-> TRUE]
          ELSE [visited |-> [i \in 1..(CHOOSE i \in stops : \A j \in stops : i <= j)
                              |-> trieCallback(m, entries[i])],
                ok |-> FALSE] :
          stops \in { { i \in 1..Len(entries) : ~trieCallbackReturn(i # limit) } } })

\* Iterate by way of trie.Aggregate.
IterateAggregated(m, limit) == callbacks(m, trieAggregate(m.trie), limit)

Iterate(m, limit) == callbacks(m, trieIterate(m.trie), limit)

Aggregate(m, limit) == callbacks(m, trieAggregate(m.trie), limit)

--------------------------------------------------------------------------
(* An IPMap of either family under its calls.  ret holds the prefix the    *)
(* last call was given (for an address, its host prefix) and what the      *)
(* call returned; a result the call does not have is left as in noRet.     *)

\* The addresses given to the IPMap: those below MaxMapAddr of either
\* family, and the nil net.IP.
MapIPsOf(length) ==
    { [len |-> length, ip |-> a] :
      a \in 0..(Min(MaxMapAddr, Pow2(ByteBits * length)) - 1) }

MapIPs == MapIPsOf(IPv4len) \cup MapIPsOf(IPv6len) \cup {nilIP}

\* The prefixes given to the IPMap: those of either family with no bit set
\* beyond the mask that lie inside the addresses below MaxMapAddr, and nil.
MapPrefixesOf(length) ==
    { prefix \in [IP : MapIPsOf(length), ones : 0..(ByteBits * length)] :
        /\ prefix.IP.ip % Pow2(ByteBits * length - prefix.ones) = 0
        /\ prefix.IP.ip + Pow2(ByteBits * length - prefix.ones) <= MaxMapAddr }

MapPrefixes == MapPrefixesOf(IPv4len) \cup MapPrefixesOf(IPv6len) \cup {nilPrefix}

\* The prefix of one address.
hostPrefix(ip) ==
    IF ip = nilIP THEN nilPrefix ELSE [IP |-> ip, ones |-> ByteBits * ip.len]

noRet ==
    [arg |-> nilPrefix, err |-> errNil, value |-> nilValue, found |-> FALSE,
     prefix |-> nilPrefix, visited |-> << >>, ok |-> FALSE, limit |-> 0,
     op |-> "none"]

\* An empty IPMap that no call was made on.
InitMap ==
    /\ ipmap = NewIPv4Map
    /\ ret = noRet
    /\ mapOps = 0

--------------------------------------------------------------------------
(* The initial states.                                                     *)

\* Three empty IPSets in one heap.
InitShare ==
    /\ mem = << >>
    /\ roots = [me |-> nil, other |-> nil, newSet |-> nil]
    /\ phase = "build"
    /\ shareOps = 0

\* A third empty IPSet, no union computed.
InitAssoc ==
    /\ third = EmptySet
    /\ unions = << >>
    /\ assocOps = 0

\* No function of net_utils.go was called.
noCall == [fn |-> "none", args |-> << >>, out |-> << >>]

--------------------------------------------------------------------------
(* The IPSet `me` under every sequence of its mutators.                   *)

Init ==
    /\ call = noCall
    /\ heap = << >>
    /\ tree = nil
    /\ other = EmptySet
    /\ newSet = EmptySet
    /\ called = "none"
    /\ nops = 0
    /\ InitShare
    /\ InitAssoc
    /\ InitMap

\* The empty IPSets and the IPMap NewIPv4Map() or NewIPv6Map() returns.
InitMaps ==
    /\ call = noCall
    /\ heap = << >>
    /\ tree = nil
    /\ other = EmptySet
    /\ newSet = EmptySet
    /\ called = "none"
    /\ nops = 0
    /\ InitShare
    /\ InitAssoc
    /\ ipmap \in {NewIPv4Map, NewIPv6Map}
    /\ ret = noRet
    /\ mapOps = 0

DoInsertNet(n) ==
    LET r == InsertNet(Me, n)
    IN  /\ heap' = r.heap
        /\ tree' = r.tree
        /\ UNCHANGED <<other, newSet, called, nops, moreVars>>

DoRemoveNet(n) ==
    LET r == RemoveNet(Me, n)
    IN  /\ heap' = r.heap
        /\ tree' = r.tree
        /\ UNCHANGED <<other, newSet, called, nops, moreVars>>

DoInsert(ip) ==
    LET r == Insert(Me, ip)
    IN  /\ heap' = r.heap
        /\ tree' = r.tree
        /\ UNCHANGED <<other, newSet, called, nops, moreVars>>

DoRemove(ip) ==
    LET r == Remove(Me, ip)
    IN  /\ heap' = r.heap
        /\ tree' = r.tree
        /\ UNCHANGED <<other, newSet, called, nops, moreVars>>

Next ==
    \/ \E n \in Nets : DoInsertNet(n)
    \/ \E n \in Nets : DoRemoveNet(n)
    \/ \E ip \in IPs : DoInsert(ip)
    \/ \E ip \in IPs : DoRemove(ip)

Spec == Init /\ [][Next]_vars

--------------------------------------------------------------------------
(* Two IPSets, `me` and `other`, built by at most MaxOps calls of their    *)
(* mutators, and then one call of me.Union(other) or me.Difference(other). *)

AlgNets == { n \in CanonNets : \A a \in AddrsOf(n) : a < MaxAlgAddr }

AlgInsertNet(n) ==
    LET r == InsertNet(Me, n)
    IN  /\ called = "none"
        /\ nops < MaxOps
        /\ heap' = r.heap
        /\ tree' = r.tree
        /\ nops' = nops + 1
        /\ UNCHANGED <<other, newSet, called, moreVars>>

AlgRemoveNet(n) ==
    LET r == RemoveNet(Me, n)
    IN  /\ called = "none"
        /\ nops < MaxOps
        /\ heap' = r.heap
        /\ tree' = r.tree
        /\ nops' = nops + 1
        /\ UNCHANGED <<other, newSet, called, moreVars>>

OtherInsertNet(n) ==
    /\ called = "none"
    /\ nops < MaxOps
    /\ other' = InsertNet(other, n)
    /\ nops' = nops + 1
    /\ UNCHANGED <<heap, tree, newSet, called, moreVars>>

OtherRemoveNet(n) ==
    /\ called = "none"
    /\ nops < MaxOps
    /\ other' = RemoveNet(other, n)
    /\ nops' = nops + 1
    /\ UNCHANGED <<heap, tree, newSet, called, moreVars>>

DoUnion ==
    /\ called = "none"
    /\ newSet' = Union(Me, other)
    /\ called' = "Union"
    /\ UNCHANGED <<heap, tree, other, nops, moreVars>>

DoDifference ==
    /\ called = "none"
    /\ newSet' = Difference(Me, other)
    /\ called' = "Difference"
    /\ UNCHANGED <<heap, tree, other, nops, moreVars>>

NextAlg ==
    \/ \E n \in AlgNets : AlgInsertNet(n)
    \/ \E n \in AlgNets : AlgRemoveNet(n)
    \/ \E n \in AlgNets : OtherInsertNet(n)
    \/ \E n \in AlgNets : OtherRemoveNet(n)
    \/ DoUnion
    \/ DoDifference

SpecAlg == Init /\ [][NextAlg]_vars

--------------------------------------------------------------------------
(* Three IPSets in one heap, as they are in the memory of one process:     *)
(* `me` and `other` are built by calls of their mutators, me.Union(other)  *)
(* or me.Difference(other) returns newSet, and newSet is then changed by   *)
(* calls of its mutators, MaxShareOps calls in all.  A node holds a        *)
(* pointer to its net.IPNet, which Union and Difference copy into the      *)
(* nodes of newSet; no operation writes through that pointer (removeNet    *)
(* and remove assign me.net, canCombineNets and divideNetInHalf allocate), *)
(* so a net is a value here too.                                           *)

\* The nodes that pointers reach from a root, dead ones behind a stale up
\* included.
ReachSet(h, root) ==
    The({ { order[i] : i \in 1..Len(order) } :
          order \in { Reach(h, << root >>, << >>) } })

\* Compact for three roots: me's nodes come first, then other's, then newSet's.
CompactMem(h, rs) ==
    The({ [mem |-> [i \in 1..Len(order) |->
                     [net |-> h[order[i]].net,
                      left |-> Index(order, h[order[i]].left),
                      right |-> Index(order, h[order[i]].right),
                      up |-> Index(order, h[order[i]].up)]],
           roots |-> [me |-> Index(order, rs.me),
                      other |-> Index(order, rs.other),
                      newSet |-> Index(order, rs.newSet)]] :
          order \in { Reach(h, << rs.me, rs.other, rs.newSet >>, << >>) } })

\* node.walk(func(node) { newSet.InsertNet(node.net) }) with newSet.tree = t:
\* the left subtree, the node, then the right subtree, each read when the
\* walk comes to it.  The heap and newSet.tree after it.
RECURSIVE walkInsertNet(_, _, _)
walkInsertNet(h, node, t) ==
    IF node = nil THEN [h |-> h, ret |-> t]
    ELSE The({ walkInsertNet(v.heap, v.heap[node].right, v.tree) :
               v \in { InsertNetLoop(l.h, l.ret, l.h[node].net, 1) :
                 l \in { walkInsertNet(h, h[node].left, t) } } })

\* node.walk(func(node) { newSet.RemoveNet(node.net) }) with newSet.tree = t.
RECURSIVE walkRemoveNet(_, _, _)
walkRemoveNet(h, node, t) ==
    IF node = nil THEN [h |-> h, ret |-> t]
    ELSE The({ walkRemoveNet(v.h, v.h[node].right, v.ret) :
               v \in { removeNet(l.h, l.ret, l.h[node].net) :
                 l \in { walkRemoveNet(h, h[node].left, t) } } })

\* A Union that adds to the receiver and returns it: newSet = me in place of
\* newSet = &IPSet{}.
UnionInPlace(h, me, o) == walkInsertNet(h, o, me)

\* me.Union(other) in the heap h: the heap after it and newSet.tree.
UnionMem(h, me, o) ==
    The({ walkInsertNet(s.h, o, s.ret) :
          s \in { walkInsertNet(h, me, nil) } })

\* me.Difference(other) in the heap h: the heap after it and newSet.tree.
DifferenceMem(h, me, o) ==
    The({ walkRemoveNet(s.h, o, s.ret) :
          s \in { walkInsertNet(h, me, nil) } })

ShareInsertNet(who, n) ==
    /\ phase = "build"
    /\ shareOps < MaxShareOps
    /\ \E c \in { CompactMem(r.heap, [roots EXCEPT ![who] = r.tree]) :
                    r \in { InsertNetLoop(mem, roots[who], n, 1) } } :
          /\ mem' = c.mem
          /\ roots' = c.roots
    /\ shareOps' = shareOps + 1
    /\ UNCHANGED <<offShare, phase>>

ShareRemoveNet(who, n) ==
    /\ phase = "build"
    /\ shareOps < MaxShareOps
    /\ \E c \in { CompactMem(r.h, [roots EXCEPT ![who] = r.ret]) :
                    r \in { removeNet(mem, roots[who], n) } } :
          /\ mem' = c.mem
          /\ roots' = c.roots
    /\ shareOps' = shareOps + 1
    /\ UNCHANGED <<offShare, phase>>

ShareUnion ==
    /\ phase = "build"
    /\ \E c \in { CompactMem(r.h, [roots EXCEPT !.newSet = r.ret]) :
                    r \in { UnionMem(mem, roots.me, roots.other) } } :
          /\ mem' = c.mem
          /\ roots' = c.roots
    /\ phase' = "Union"
    /\ UNCHANGED <<offShare, shareOps>>

ShareDifference ==
    /\ phase = "build"
    /\ \E c \in { CompactMem(r.h, [roots EXCEPT !.newSet = r.ret]) :
                    r \in { DifferenceMem(mem, roots.me, roots.other) } } :
          /\ mem' = c.mem
          /\ roots' = c.roots
    /\ phase' = "Difference"
    /\ UNCHANGED <<offShare, shareOps>>

ResultInsertNet(n) ==
    /\ phase # "build"
    /\ shareOps < MaxShareOps
    /\ \E c \in { CompactMem(r.heap, [roots EXCEPT !.newSet = r.tree]) :
                    r \in { InsertNetLoop(mem, roots.newSet, n, 1) } } :
          /\ mem' = c.mem
          /\ roots' = c.roots
    /\ shareOps' = shareOps + 1
    /\ UNCHANGED <<offShare, phase>>

ResultRemoveNet(n) ==
    /\ phase # "build"
    /\ shareOps < MaxShareOps
    /\ \E c \in { CompactMem(r.h, [roots EXCEPT !.newSet = r.ret]) :
                    r \in { removeNet(mem, roots.newSet, n) } } :
          /\ mem' = c.mem
          /\ roots' = c.roots
    /\ shareOps' = shareOps + 1
    /\ UNCHANGED <<offShare, phase>>

NextShare ==
    \/ \E who \in {"me", "other"}, n \in AlgNets : ShareInsertNet(who, n)
    \/ \E who \in {"me", "other"}, n \in AlgNets : ShareRemoveNet(who, n)
    \/ ShareUnion
    \/ ShareDifference
    \/ \E n \in AlgNets : ResultInsertNet(n)
    \/ \E n \in AlgNets : ResultRemoveNet(n)

SpecShare == Init /\ [][NextShare]_vars

--------------------------------------------------------------------------
(* Three IPSets A = me, B = other and C = third, built by InsertNet only,  *)
(* and then the unions A.Union(B), B.Union(A), A.Union(B).Union(C) and     *)
(* A.Union(B.Union(C)).                                                    *)

AssocInsertNet(which, n) ==
    /\ unions = << >>
    /\ assocOps < MaxAssocOps
    /\ \E r \in { InsertNet(IF which = "A" THEN Me
                              ELSE IF which = "B" THEN other ELSE third, n) } :
          /\ heap' = IF which = "A" THEN r.heap ELSE heap
          /\ tree' = IF which = "A" THEN r.tree ELSE tree
          /\ other' = IF which = "B" THEN r ELSE other
          /\ third' = IF which = "C" THEN r ELSE third
    /\ assocOps' = assocOps + 1
    /\ UNCHANGED <<offAssoc, unions>>

\* The in-order CIDR list of a set.
walkOf(s) == walk(s.heap, s.tree)

AssocUnions ==
    /\ unions = << >>
    /\ \E ab \in { Union(Me, other) }, bc \in { Union(other, third) } :
          unions' = << walkOf(ab),
                       walkOf(Union(other, Me)),
                       walkOf(Union(ab, third)),
                       walkOf(Union(Me, bc)) >>
    /\ UNCHANGED <<offAssoc, heap, tree, other, third, assocOps>>

NextAssoc ==
    \/ \E which \in {"A", "B", "C"}, n \in AlgNets : AssocInsertNet(which, n)
    \/ AssocUnions

SpecAssoc == Init /\ [][NextAssoc]_vars

--------------------------------------------------------------------------
(* An IPMap of either family under every sequence of its calls, at most    *)
(* MaxMapOps of them calls that can change it.                             *)

CallInsertPrefix(prefix, value) ==
    /\ mapOps < MaxMapOps
    /\ \E r \in { InsertPrefix(ipmap, prefix, value) } :
          /\ ipmap' = r.m
          /\ ret' = [noRet EXCEPT !.op = "InsertPrefix", !.arg = prefix, !.err = r.err]
    /\ mapOps' = mapOps + 1
    /\ UNCHANGED offMap

CallInsert(ip, value) ==
    /\ mapOps < MaxMapOps
    /\ \E r \in { IPMapInsert(ipmap, ip, value) } :
          /\ ipmap' = r.m
          /\ ret' = [noRet EXCEPT !.op = "Insert", !.arg = hostPrefix(ip), !.err = r.err]
    /\ mapOps' = mapOps + 1
    /\ UNCHANGED offMap

CallInsertOrUpdatePrefix(prefix, value) ==
    /\ mapOps < MaxMapOps
    /\ \E r \in { InsertOrUpdatePrefix(ipmap, prefix, value) } :
          /\ ipmap' = r.m
          /\ ret' = [noRet EXCEPT !.op = "InsertOrUpdatePrefix", !.arg = prefix,
                                  !.err = r.err]
    /\ mapOps' = mapOps + 1
    /\ UNCHANGED offMap

CallInsertOrUpdate(ip, value) ==
    /\ mapOps < MaxMapOps
    /\ \E r \in { InsertOrUpdate(ipmap, ip, value) } :
          /\ ipmap' = r.m
          /\ ret' = [noRet EXCEPT !.op = "InsertOrUpdate", !.arg = hostPrefix(ip),
                                  !.err = r.err]
    /\ mapOps' = mapOps + 1
    /\ UNCHANGED offMap

CallGetOrInsertPrefix(prefix, value) ==
    /\ mapOps < MaxMapOps
    /\ \E r \in { GetOrInsertPrefix(ipmap, prefix, value) } :
          /\ ipmap' = r.m
          /\ ret' = [noRet EXCEPT !.op = "GetOrInsertPrefix", !.arg = prefix,
                                  !.value = r.value, !.err = r.err]
    /\ mapOps' = mapOps + 1
    /\ UNCHANGED offMap

CallGetOrInsert(ip, value) ==
    /\ mapOps < MaxMapOps
    /\ \E r \in { GetOrInsert(ipmap, ip, value) } :
          /\ ipmap' = r.m
          /\ ret' = [noRet EXCEPT !.op = "GetOrInsert", !.arg = hostPrefix(ip),
                                  !.value = r.value, !.err = r.err]
    /\ mapOps' = mapOps + 1
    /\ UNCHANGED offMap

CallRemovePrefix(prefix) ==
    /\ mapOps < MaxMapOps
    /\ ipmap' = RemovePrefix(ipmap, prefix)
    /\ ret' = [noRet EXCEPT !.op = "RemovePrefix", !.arg = prefix]
    /\ mapOps' = mapOps + 1
    /\ UNCHANGED offMap

CallRemove(ip) ==
    /\ mapOps < MaxMapOps
    /\ ipmap' = IPMapRemove(ipmap, ip)
    /\ ret' = [noRet EXCEPT !.op = "Remove", !.arg = hostPrefix(ip)]
    /\ mapOps' = mapOps + 1
    /\ UNCHANGED offMap

CallGetPrefix(prefix) ==
    /\ \E r \in { GetPrefix(ipmap, prefix) } :
          ret' = [noRet EXCEPT !.op = "GetPrefix", !.arg = prefix,
                               !.value = r.value, !.found = r.found]
    /\ UNCHANGED <<offMap, ipmap, mapOps>>

CallGet(ip) ==
    /\ \E r \in { Get(ipmap, ip) } :
          ret' = [noRet EXCEPT !.op = "Get", !.arg = hostPrefix(ip),
                               !.value = r.value, !.found = r.found]
    /\ UNCHANGED <<offMap, ipmap, mapOps>>

CallMatchPrefix(prefix) ==
    /\ \E r \in { MatchPrefix(ipmap, prefix) } :
          ret' = [noRet EXCEPT !.op = "MatchPrefix", !.arg = prefix,
                               !.prefix = r.prefix, !.value = r.value]
    /\ UNCHANGED <<offMap, ipmap, mapOps>>

CallMatch(ip) ==
    /\ \E r \in { Match(ipmap, ip) } :
          ret' = [noRet EXCEPT !.op = "Match", !.arg = hostPrefix(ip),
                               !.prefix = r.prefix, !.value = r.value]
    /\ UNCHANGED <<offMap, ipmap, mapOps>>

NextMap ==
    \/ \E prefix \in MapPrefixes, value \in Values : CallInsertPrefix(prefix, value)
    \/ \E ip \in MapIPs, value \in Values : CallInsert(ip, value)
    \/ \E prefix \in MapPrefixes, value \in Values : CallInsertOrUpdatePrefix(prefix, value)
    \/ \E ip \in MapIPs, value \in Values : CallInsertOrUpdate(ip, value)
    \/ \E prefix \in MapPrefixes, value \in Values : CallGetOrInsertPrefix(prefix, value)
    \/ \E ip \in MapIPs, value \in Values : CallGetOrInsert(ip, value)
    \/ \E prefix \in MapPrefixes : CallRemovePrefix(prefix)
    \/ \E ip \in MapIPs : CallRemove(ip)
    \/ \E prefix \in MapPrefixes : CallGetPrefix(prefix)
    \/ \E ip \in MapIPs : CallGet(ip)
    \/ \E prefix \in MapPrefixes : CallMatchPrefix(prefix)
    \/ \E ip \in MapIPs : CallMatch(ip)

SpecMap == InitMaps /\ [][NextMap]_vars

--------------------------------------------------------------------------
(* An IPMap of either family filled by at most MaxAggOps calls of          *)
(* InsertPrefix with prefixes of its family, and walked by Iterate and     *)
(* Aggregate.                                                              *)

AggInsertPrefix(prefix, value) ==
    /\ mapOps < MaxAggOps
    /\ prefix \in MapPrefixesOf(ipmap.length)
    /\ \E r \in { InsertPrefix(ipmap, prefix, value) } :
          /\ ipmap' = r.m
          /\ ret' = [noRet EXCEPT !.op = "InsertPrefix", !.arg = prefix, !.err = r.err]
    /\ mapOps' = mapOps + 1
    /\ UNCHANGED offMap

CallIterate(limit) ==
    /\ \E r \in { Iterate(ipmap, limit) } :
          ret' = [noRet EXCEPT !.op = "Iterate", !.limit = limit,
                               !.visited = r.visited, !.ok = r.ok]
    /\ UNCHANGED <<offMap, ipmap, mapOps>>

CallAggregate(limit) ==
    /\ \E r \in { Aggregate(ipmap, limit) } :
          ret' = [noRet EXCEPT !.op = "Aggregate", !.limit = limit,
                               !.visited = r.visited, !.ok = r.ok]
    /\ UNCHANGED <<offMap, ipmap, mapOps>>

NextAgg ==
    \/ \E prefix \in MapPrefixes, value \in Values : AggInsertPrefix(prefix, value)
    \/ \E limit \in 0..1 : CallIterate(limit)
    \/ \E limit \in 0..1 : CallAggregate(limit)

SpecAgg == InitMaps /\ [][NextAgg]_vars

--------------------------------------------------------------------------
(* An IPMap of either family filled by at most MaxRoundOps calls of        *)
(* InsertPrefix, on which InsertPrefix(k, v) followed by RemovePrefix(k)   *)
(* is called once, as in TestRemoveNet.                                    *)

RoundInsertPrefix(prefix, value) ==
    /\ mapOps < MaxRoundOps
    /\ prefix \in MapPrefixesOf(ipmap.length)
    /\ \E r \in { InsertPrefix(ipmap, prefix, value) } :
          /\ ipmap' = r.m
          /\ ret' = [noRet EXCEPT !.op = "InsertPrefix"]
    /\ mapOps' = mapOps + 1
    /\ UNCHANGED offMap

\* InsertPrefix(prefix, value) and then RemovePrefix(prefix), as one step; err
\* is what InsertPrefix returned.
CallInsertThenRemove(prefix, value) ==
    /\ ret.op # "InsertPrefix;RemovePrefix"
    /\ prefix \in MapPrefixesOf(ipmap.length)
    /\ \E r \in { InsertPrefix(ipmap, prefix, value) } :
          /\ ipmap' = RemovePrefix(r.m, prefix)
          /\ ret' = [noRet EXCEPT !.op = "InsertPrefix;RemovePrefix", !.arg = prefix,
                                  !.err = r.err]
    /\ UNCHANGED <<offMap, mapOps>>

NextRound ==
    \/ \E prefix \in MapPrefixes, value \in Values : RoundInsertPrefix(prefix, value)
    \/ \E prefix \in MapPrefixes, value \in Values : CallInsertThenRemove(prefix, value)

SpecRound == InitMaps /\ [][NextRound]_vars

--------------------------------------------------------------------------
(* The IPSet `me` given CIDRs of two families by InsertNet: those of        *)
(* AlgNets and those of a family of longer addresses, none of which is     *)
(* taken for the longer form of an address of the first family.            *)

WideNets ==
    { n \in [IP : 0..(MaxAlgAddr - 1), ones : 0..WideBits, bits : {WideBits}] :
        /\ MaskIP(n.IP, n.ones, n.bits) = n.IP
        /\ n.IP + Pow2(n.bits - n.ones) <= MaxAlgAddr }

MixedInsertNet(n) ==
    /\ \E r \in { InsertNet(Me, n) } :
          /\ heap' = r.heap
          /\ tree' = r.tree
    /\ UNCHANGED <<other, newSet, called, nops, moreVars>>

NextMixed == \E n \in AlgNets \cup WideNets : MixedInsertNet(n)

SpecMixed == Init /\ [][NextMixed]_vars

--------------------------------------------------------------------------
(* An IPSet or an IPMap given prefixes of its family with any address and  *)
(* any mask length, bits set beyond the mask included: in a behaviour      *)
(* either the IPSet `me` is given them by InsertNet, or the IPMap by at    *)
(* most MaxRoundOps calls of InsertPrefix.                                 *)

\* The *net.IPNet of the family with an address below MaxAlgAddr.
HostNets == { n \in AllNets : n.IP < MaxAlgAddr }

\* The prefixes of the family of the map with an address below MaxMapAddr.
HostPrefixesOf(length) == [IP : MapIPsOf(length), ones : 0..(ByteBits * length)]

HostInsertNet(n) ==
    /\ mapOps = 0
    /\ \E r \in { InsertNet(Me, n) } :
          /\ heap' = r.heap
          /\ tree' = r.tree
    /\ UNCHANGED <<other, newSet, called, nops, moreVars>>

HostInsertPrefix(prefix, value) ==
    /\ tree = nil
    /\ mapOps < MaxRoundOps
    /\ \E r \in { InsertPrefix(ipmap, prefix, value) } :
          /\ ipmap' = r.m
          /\ ret' = [noRet EXCEPT !.op = "InsertPrefix", !.arg = prefix, !.err = r.err]
    /\ mapOps' = mapOps + 1
    /\ UNCHANGED offMap

NextHost ==
    \/ \E n \in HostNets : HostInsertNet(n)
    \/ \E prefix \in HostPrefixesOf(ipmap.length), value \in Values :
          HostInsertPrefix(prefix, value)

SpecHost == InitMaps /\ [][NextHost]_vars

--------------------------------------------------------------------------
(* The functions of net_utils.go, each called once on every input: a       *)
(* *net.IPNet of the family with any address and any mask length for       *)
(* NetworkAddr, BroadcastAddr and expandNet, two with no bit set beyond    *)
(* the mask for netDifference, canCombineNets and containsNet.             *)

CallNetworkAddr(n) ==
    /\ call = noCall
    /\ call' = [fn |-> "NetworkAddr", args |-> << n >>, out |-> NetworkAddr(n)]
    /\ UNCHANGED offNet

CallBroadcastAddr(n) ==
    /\ call = noCall
    /\ call' = [fn |-> "BroadcastAddr", args |-> << n >>, out |-> BroadcastAddr(n)]
    /\ UNCHANGED offNet

CallNetDifference(a, b) ==
    /\ call = noCall
    /\ call' = [fn |-> "netDifference", args |-> << a, b >>, out |-> netDifference(a, b)]
    /\ UNCHANGED offNet

CallCanCombineNets(a, b) ==
    /\ call = noCall
    /\ call' = [fn |-> "canCombineNets", args |-> << a, b >>, out |-> canCombineNets(a, b)]
    /\ UNCHANGED offNet

\* The prefixes of the second family with no bit set beyond the mask.
WideCanonNets ==
    { n \in [IP : 0..(Pow2(WideBits) - 1), ones : 0..WideBits, bits : {WideBits}] :
        MaskIP(n.IP, n.ones, n.bits) = n.IP }

CallContainsNet(a, b) ==
    /\ call = noCall
    /\ call' = [fn |-> "containsNet", args |-> << a, b >>, out |-> containsNet(a, b)]
    /\ UNCHANGED offNet

\* The limits handed to expandNet: none, some and more than a family has
\* addresses.
Limits == 0..(Pow2(AddrBits) + 1)

CallExpandNet(n, limit) ==
    /\ call = noCall
    /\ call' = [fn |-> "expandNet", args |-> << n, limit >>, out |-> expandNet(n, limit)]
    /\ UNCHANGED offNet

\* The addresses of either family, byte by byte.
ByteIPs == [1..IPv4len -> Bytes] \cup [1..IPv6len -> Bytes]

CallIncrementIP(ip) ==
    /\ call = noCall
    /\ call' = [fn |-> "incrementIP", args |-> << ip >>, out |-> incrementIPBytes(ip)]
    /\ UNCHANGED offNet

NextNet ==
    \/ \E ip \in ByteIPs : CallIncrementIP(ip)
    \/ \E a \in CanonNets \cup WideCanonNets, b \in CanonNets \cup WideCanonNets :
          CallContainsNet(a, b)
    \/ \E n \in AllNets, limit \in Limits : CallExpandNet(n, limit)
    \/ \E a \in CanonNets, b \in CanonNets : CallCanCombineNets(a, b)
    \/ \E n \in AllNets : CallNetworkAddr(n)
    \/ \E n \in AllNets : CallBroadcastAddr(n)
    \/ \E a \in CanonNets, b \in CanonNets : CallNetDifference(a, b)

SpecNet == Init /\ [][NextNet]_vars

--------------------------------------------------------------------------
(* What the claims speak of.                                               *)

\* The addresses a for which Contains(a) is true.
CoverOf(s) == { a \in Addrs : Contains(s, a) }

Me2 == [heap |-> heap', tree |-> tree']

RECURSIVE SortedSeq(_)
SortedSeq(S) ==
    IF S = {} THEN << >>
    ELSE The({ << m >> \o SortedSeq(S \ {m}) :
               m \in { x \in S : \A y \in S : x <= y } })

Range(f) == { f[i] : i \in DOMAIN f }

\* The nodes of the subtree below a pointer.
SubtreeNodes(h, n) == Range(walkNodes(h, n))

\* The CIDRs inside a set of addresses that no larger CIDR inside it contains.
MaximalCIDRs(c) ==
    { n \in CanonNets :
        /\ AddrsOf(n) \subseteq c
        /\ \A m \in CanonNets :
              (m # n /\ AddrsOf(n) \subseteq AddrsOf(m)) => ~(AddrsOf(m) \subseteq c) }

\* No two CIDRs of the list overlap and no two neighbours can be combined.
DisjointAndMinimal(w) ==
    /\ \A i, j \in 1..Len(w) :
          i # j => /\ ~containsNet(w[i], w[j])
                   /\ AddrsOf(w[i]) \cap AddrsOf(w[j]) = {}
    /\ \A i \in 1..(Len(w) - 1) :
          /\ ~canCombineNets(w[i], w[i + 1]).ok
          /\ ~canCombineNets(w[i + 1], w[i]).ok

\* C1: every InsertNet(n) makes the set of contained addresses the previous
\* set united with the addresses of n, and changes no other address.
C1_InsertNetAddsExactlyN ==
    [][\A n \in Nets :
          DoInsertNet(n) => CoverOf(Me2) = CoverOf(Me) \cup AddrsOf(n)]_vars

\* C2: every RemoveNet(n) makes the set of contained addresses the previous
\* set minus the addresses of n.
C2_RemoveNetRemovesExactlyN ==
    [][\A n \in Nets :
          DoRemoveNet(n) => CoverOf(Me2) = CoverOf(Me) \ AddrsOf(n)]_vars

\* C3: the root's up is nil, the up of every child is its parent, and next()
\* on the last node in order returns nil.
C3_UpLinksConsistent ==
    /\ tree # nil => heap[tree].up = nil
    /\ \A n \in SubtreeNodes(heap, tree) :
          /\ heap[n].left # nil => heap[heap[n].left].up = n
          /\ heap[n].right # nil => heap[heap[n].right].up = n
    /\ tree # nil => next(heap, rightMost(heap, tree)) = nil

\* C4: GetIPs(limit) returns contained addresses in strictly ascending order,
\* min(limit, size) of them for limit > 0 and all of them for limit = 0.
C4_GetIPsAscendingContained ==
    \A limit \in 0..(Pow2(AddrBits) + 1) :
        LET ips == GetIPs(Me, limit)
            c == CoverOf(Me)
        IN  /\ \A i \in 1..(Len(ips) - 1) : ips[i] < ips[i + 1]
            /\ \A i \in 1..Len(ips) : ips[i] \in c
            /\ Len(ips) = IF limit = 0 THEN Cardinality(c)
                          ELSE Min(limit, Cardinality(c))

\* C5: no two nodes hold overlapping CIDRs and no two nodes adjacent in order
\* hold CIDRs that canCombineNets combines.
C5_DisjointAndMinimal == DisjointAndMinimal(walk(heap, tree))

\* C6: ContainsNet(n) is true iff every address of n is in the set, which is
\* iff one node's CIDR contains n.
C6_ContainsNetIffCovered ==
    \A n \in CanonNets :
        /\ ContainsNet(Me, n) <=> AddrsOf(n) \subseteq CoverOf(Me)
        /\ ContainsNet(Me, n) <=>
              \E i \in SubtreeNodes(heap, tree) : containsNet(heap[i].net, n)

C8_WalkIsMinimalCover ==
    LET w == walk(heap, tree)
    IN  /\ Range(w) = MaximalCIDRs(CoverOf(Me))
        /\ Len(w) = Cardinality(MaximalCIDRs(CoverOf(Me)))
        /\ \A i \in 1..(Len(w) - 1) : w[i].IP < w[i + 1].IP

\* C9: me.Union(other) contains an address iff me or other contains it, and
\* its CIDRs are disjoint and minimal.
C9_UnionIsUnion ==
    called = "Union" =>
        /\ \A a \in Addrs :
              Contains(newSet, a) <=> (Contains(Me, a) \/ Contains(other, a))
        /\ DisjointAndMinimal(walk(newSet.heap, newSet.tree))

\* C10: me.Difference(other) contains an address iff me contains it and other
\* does not, and GetIPs on it returns exactly those addresses.
C10_DifferenceIsDifference ==
    called = "Difference" =>
        /\ \A a \in Addrs :
              Contains(newSet, a) <=> (Contains(Me, a) /\ ~Contains(other, a))
        /\ GetIPs(newSet, 0) = SortedSeq(CoverOf(Me) \ CoverOf(other))

\* The addresses an IPSet of the shared heap contains, and those GetIPs lists.
CoverIn(h, root) == { a \in Addrs : contains(h, root, ipToNet(a, AddrBits)) }

\* The tree of an operand is the same after the step as before it: the same
\* root and, at every node pointers reach from it, the same CIDR and links.
SameTree(who) ==
    /\ roots'[who] = roots[who]
    /\ \A n \in ReachSet(mem, roots[who]) :
          n \in DOMAIN mem' /\ mem'[n] = mem[n]
    /\ CoverIn(mem', roots'[who]) = CoverIn(mem, roots[who])
    /\ GetIPs([heap |-> mem', tree |-> roots'[who]], 0)
          = GetIPs([heap |-> mem, tree |-> roots[who]], 0)

\* C11: Union and Difference leave both operands' trees as they were and
\* return a tree that shares no node with them, and an InsertNet or RemoveNet
\* on the result afterwards changes neither operand's tree, Contains or GetIPs.
C11_OperandsUnchanged ==
    [][phase' # "build" =>
         /\ SameTree("me")
         /\ SameTree("other")
         /\ ReachSet(mem', roots'.newSet)
               \cap (ReachSet(mem', roots'.me) \cup ReachSet(mem', roots'.other)) = {}]_vars

\* Both operands hold nodes, and the result holds other nodes than the call
\* returned: it was changed afterwards.
C11_Witness ==
    /\ phase = "Union"
    /\ roots.me # nil /\ roots.other # nil /\ roots.newSet # nil
    /\ CoverIn(mem, roots.newSet)
          # CoverIn(mem, roots.me) \cup CoverIn(mem, roots.other)


Stores(m, prefix) ==
    \E k \in DOMAIN m.trie :
        /\ k.Length = prefix.ones
        /\ keyBits(k, k.Length)
             = prefix.IP.ip \div Pow2(ByteBits * prefix.IP.len - prefix.ones)

\* The prefix is one of the family of the map.
OfWidth(m, prefix) == prefix # nilPrefix /\ prefix.IP.len = m.length

\* C16: InsertPrefix(p, v) and Insert(ip, v) on a map that stores the key
\* return a non-nil error and leave the map unchanged (same Size, GetPrefix(p)
\* returns the value stored before); on a map that does not store it they
\* return nil, Size grows by one and GetPrefix(p) returns v.
C16_StrictInsert ==
    [][\A value \in Values :
         /\ ret'.op \in {"InsertPrefix", "Insert"}
         /\ OfWidth(ipmap, ret'.arg)
         /\ \/ CallInsertPrefix(ret'.arg, value)
            \/ CallInsert(ret'.arg.IP, value)
         => IF Stores(ipmap, ret'.arg)
            THEN /\ ret'.err # errNil
                 /\ ipmap' = ipmap
                 /\ IPMapSize(ipmap') = IPMapSize(ipmap)
                 /\ GetPrefix(ipmap', ret'.arg) = GetPrefix(ipmap, ret'.arg)
                 /\ GetPrefix(ipmap', ret'.arg).found
            ELSE /\ ret'.err = errNil
                 /\ IPMapSize(ipmap') = IPMapSize(ipmap) + 1
                 /\ GetPrefix(ipmap', ret'.arg) = [value |-> value, found |-> TRUE]]_vars

\* An insert of a stored key has returned its error, and the map still
\* holds that one entry.
C16_Witness ==
    /\ ret.op \in {"InsertPrefix", "Insert"}
    /\ ret.err = "key already exists"
    /\ Stores(ipmap, ret.arg)
    /\ IPMapSize(ipmap) = 1
\* C17: a call given an address or prefix whose byte length is not the
\* map's leaves the map unchanged; the six inserting calls return a non-nil
\* error, Get and GetPrefix return found = false, Match and MatchPrefix
\* return a nil prefix, and Remove and RemovePrefix do nothing.
C17_WrongWidthRejected ==
    [][ret'.op # "none" /\ ret'.arg.IP.len # ipmap.length =>
         /\ ipmap' = ipmap
         /\ IPMapSize(ipmap') = IPMapSize(ipmap)
         /\ ret'.op \in {"InsertPrefix", "Insert", "InsertOrUpdatePrefix",
                         "InsertOrUpdate", "GetOrInsertPrefix", "GetOrInsert"}
              => ret'.err # errNil
         /\ ret'.op \in {"GetPrefix", "Get"} => ret'.found = FALSE
         /\ ret'.op \in {"MatchPrefix", "Match"} => ret'.prefix = nilPrefix]_vars

\* An insert was given a prefix of the other family whose length and
\* leading bits are those of a stored key, and has returned its error.
C17_Witness ==
    /\ ret.op = "InsertPrefix"
    /\ ret.arg # nilPrefix
    /\ ret.arg.IP.len # ipmap.length
    /\ ret.arg.ones > 0
    /\ Stores(ipmap, ret.arg)
    /\ ret.err = "cannot insert prefix with length"
\* The stored prefixes of the map's width that contain the prefix q, as
\* pairs of address and length.
Containing(m, q) ==
    { n \in [IP : [len : {m.length}, ip : 0..(Pow2(ByteBits * m.length) - 1)],
             ones : 0..q.ones] :
        /\ Stores(m, n)
        /\ n.IP.ip % Pow2(ByteBits * m.length - n.ones) = 0
        /\ n.IP.ip \div Pow2(ByteBits * m.length - n.ones)
             = q.IP.ip \div Pow2(ByteBits * m.length - n.ones) }

\* The value stored under a prefix.
ValueOf(m, n) ==
    m.trie[CHOOSE k \in DOMAIN m.trie :
             /\ k.Length = n.ones
             /\ keyBits(k, k.Length) = n.IP.ip \div Pow2(ByteBits * n.IP.len - n.ones)]

\* C18: for a query q of the map's width, MatchPrefix(q) and Match(ip)
\* return the stored prefix of greatest length that contains q, with its
\* value, as a prefix of the map's byte width with a mask of the matched
\* length, and a nil prefix iff no stored prefix contains q.
C18_LongestPrefixMatch ==
    ret.op \in {"MatchPrefix", "Match"} /\ OfWidth(ipmap, ret.arg) =>
        IF Containing(ipmap, ret.arg) = {}
        THEN ret.prefix = nilPrefix
        ELSE /\ ret.prefix \in Containing(ipmap, ret.arg)
             /\ \A n \in Containing(ipmap, ret.arg) : n.ones <= ret.prefix.ones
             /\ ret.prefix.IP.len = ipmap.length
             /\ ret.value = ValueOf(ipmap, ret.prefix)

\* A match has returned the longer of two stored prefixes that contain the
\* query, and it is shorter than the query.
C18_Witness ==
    /\ ret.op = "MatchPrefix"
    /\ OfWidth(ipmap, ret.arg)
    /\ Cardinality(Containing(ipmap, ret.arg)) = 2
    /\ ret.prefix # nilPrefix
    /\ ret.prefix.ones < ret.arg.ones
    /\ ret.prefix.IP.ip # 0
\* C19: GetPrefix(p) and Get(ip) return (v, true) iff an entry with the
\* bits and the length of p is stored with value v, and (nil, false)
\* otherwise, also when a shorter stored prefix contains p.
C19_ExactMatchOnly ==
    ret.op \in {"GetPrefix", "Get"} /\ OfWidth(ipmap, ret.arg) =>
        IF Stores(ipmap, ret.arg)
        THEN ret.found /\ ret.value = ValueOf(ipmap, ret.arg)
        ELSE ~ret.found /\ ret.value = nilValue

\* A Get of a prefix that is not stored has returned (nil, false) on a map
\* that stores a shorter prefix containing it.
C19_Witness ==
    /\ ret.op = "GetPrefix"
    /\ OfWidth(ipmap, ret.arg)
    /\ ~Stores(ipmap, ret.arg)
    /\ Containing(ipmap, ret.arg) # {}
    /\ ~ret.found
    /\ ret.arg.IP.ip # 0

\* The distinct prefixes, as address and length, that the keys of the map
\* spell.
StoredPrefixes(m) ==
    { [IP |-> [len |-> m.length,
               ip |-> keyBits(k, k.Length) * Pow2(ByteBits * m.length - k.Length)],
       ones |-> k.Length] : k \in DOMAIN m.trie }

\* C20: Size() is the number of distinct keys stored; a call changes it by
\* +1 exactly when it inserts a key that was absent, by -1 exactly when it
\* removes a key that was present, and not at all otherwise.
C20_SizeCountsKeys ==
    [][ret'.op # "none" =>
         /\ IPMapSize(ipmap') = Cardinality(StoredPrefixes(ipmap'))
         /\ IPMapSize(ipmap') - IPMapSize(ipmap) =
              IF /\ ret'.op \in {"InsertPrefix", "Insert", "InsertOrUpdatePrefix",
                                 "InsertOrUpdate", "GetOrInsertPrefix", "GetOrInsert"}
                 /\ OfWidth(ipmap, ret'.arg)
                 /\ ~Stores(ipmap, ret'.arg)
              THEN 1
              ELSE IF /\ ret'.op \in {"RemovePrefix", "Remove"}
                      /\ OfWidth(ipmap, ret'.arg)
                      /\ Stores(ipmap, ret'.arg)
              THEN 0 - 1
              ELSE 0]_vars

\* Every call made was an insert of an absent key, the last one a
\* GetOrInsertPrefix, and Size() counts them.
C20_Witness ==
    /\ ret.op = "GetOrInsertPrefix"
    /\ ret.err = errNil
    /\ mapOps = MaxMapOps
    /\ IPMapSize(ipmap) = mapOps
\* The entries of the map as pairs of prefix and value.
StoredPairs(m) == { [prefix |-> n, value |-> ValueOf(m, n)] : n \in StoredPrefixes(m) }

\* The pairs the callback of the last Iterate or Aggregate was called with.
VisitedPairs == { ret.visited[i] : i \in 1..Len(ret.visited) }

\* The addresses of the family of the map, as numbers.
MapAddrs(m) == 0..(Pow2(ByteBits * m.length) - 1)

\* The value of the longest prefix among the pairs that contains the
\* address x of the map's family, noData when none contains it.
LPMValue(pairs, m, x) ==
    LET shift(e) == Pow2(ByteBits * m.length - e.prefix.ones)
        covering == { e \in pairs : e.prefix.IP.ip \div shift(e) = x \div shift(e) }
    IN  IF covering = {} THEN noData
        ELSE (CHOOSE e \in covering :
                \A f \in covering : f.prefix.ones <= e.prefix.ones).value

\* C13: every address has a longest-prefix match among the pairs Aggregate
\* visits iff it has one among the entries of the map, and then with the
\* same value.
C13_AggregatePreservesMatches ==
    ret.op = "Aggregate" /\ ret.ok =>
        \A x \in MapAddrs(ipmap) :
            LPMValue(VisitedPairs, ipmap, x) = LPMValue(StoredPairs(ipmap), ipmap, x)

\* Aggregate has visited fewer pairs than the map holds, one of them a
\* prefix that is no entry of the map, and some address has no match.
C13_Witness ==
    /\ ret.op = "Aggregate" /\ ret.ok
    /\ Len(ret.visited) >= 2
    /\ Len(ret.visited) < IPMapSize(ipmap)
    /\ \E e \in VisitedPairs : ~Stores(ipmap, e.prefix)
    /\ \E x \in MapAddrs(ipmap) : LPMValue(StoredPairs(ipmap), ipmap, x) = noData
\* The prefixes of the family of the map, as address and length.
FamilyPrefixes(m) ==
    { n \in [IP : [len : {m.length}, ip : MapAddrs(m)], ones : 0..(ByteBits * m.length)] :
        n.IP.ip % Pow2(ByteBits * m.length - n.ones) = 0 }

\* The sets of fewer than k pairs of prefix and value, no prefix twice.
FewerPairs(m, k) ==
    UNION { { { [prefix |-> n, value |-> f[n]] : n \in ps } : f \in [ps -> Values] } :
            ps \in { qs \in SUBSET FamilyPrefixes(m) : Cardinality(qs) < k } }

\* C14: the set of pairs Aggregate visits is minimal: no set of fewer
\* pairs gives every address the longest-prefix-match value the map gives.
C14_AggregateMinimal ==
    ret.op = "Aggregate" /\ ret.ok =>
        \A pairs \in FewerPairs(ipmap, Len(ret.visited)) :
            \E x \in MapAddrs(ipmap) :
                LPMValue(pairs, ipmap, x) # LPMValue(StoredPairs(ipmap), ipmap, x)

\* p comes before q in the order of Iterate: by the bits they share, and
\* the shorter one first when one contains the other.
PrefixLess(m, p, q) ==
    LET n == Min(p.ones, q.ones)
        pb == p.IP.ip \div Pow2(ByteBits * m.length - n)
        qb == q.IP.ip \div Pow2(ByteBits * m.length - n)
    IN  \/ pb < qb
        \/ pb = qb /\ p.ones < q.ones

\* C15: Iterate calls the callback once for every entry of the map, in
\* strict lexicographic order of the prefix bits, a shorter prefix before
\* every longer one it contains; Aggregate visits its pairs in this order.
C15_IterateInOrder ==
    /\ ret.op \in {"Iterate", "Aggregate"} =>
          \A i, j \in 1..Len(ret.visited) :
              i < j => PrefixLess(ipmap, ret.visited[i].prefix, ret.visited[j].prefix)
    /\ ret.op = "Iterate" /\ ret.ok =>
          /\ Len(ret.visited) = IPMapSize(ipmap)
          /\ VisitedPairs = StoredPairs(ipmap)

\* Iterate has visited three entries, one of them containing the next one.
C15_Witness ==
    /\ ret.op = "Iterate" /\ ret.ok
    /\ Len(ret.visited) = 3
    /\ \E i \in 1..2 :
          /\ ret.visited[i].prefix.ones < ret.visited[i + 1].prefix.ones
          /\ ret.visited[i].prefix.IP.ip = ret.visited[i + 1].prefix.IP.ip
    /\ ret.visited[3].prefix.IP.ip # 0
--------------------------------------------------------------------------
\* What a caller can observe of a map: Size, GetPrefix and MatchPrefix of
\* every prefix given to the map, and the walks of Iterate and Aggregate
\* with a callback that returns true.
Observed(m) ==
    [size |-> IPMapSize(m),
     get |-> [q \in MapPrefixes |-> GetPrefix(m, q)],
     match |-> [q \in MapPrefixes |-> MatchPrefix(m, q)],
     iterate |-> Iterate(m, 0),
     aggregate |-> Aggregate(m, 0)]

\* C21: for a key k the map does not store, InsertPrefix(k, v) followed by
\* RemovePrefix(k) leaves a map that is observed as the map before: same
\* Size, same GetPrefix and MatchPrefix for every query, same Iterate and
\* Aggregate sequences.
C21_InsertThenRemoveRestores ==
    [][(ret'.op = "InsertPrefix;RemovePrefix" /\ ~Stores(ipmap, ret'.arg))
       => /\ ret'.err = errNil
          /\ Observed(ipmap') = Observed(ipmap)]_vars

\* InsertPrefix(k, v) then RemovePrefix(k) was called with a k that was not
\* stored and is no host prefix, on a map of two entries, one of them
\* containing k.
C21_Witness ==
    /\ ret.op = "InsertPrefix;RemovePrefix"
    /\ ret.err = errNil
    /\ ret.arg.ones < ByteBits * ipmap.length
    /\ ~Stores(ipmap, ret.arg)
    /\ IPMapSize(ipmap) >= 2
    /\ Containing(ipmap, ret.arg) # {}
--------------------------------------------------------------------------
\* C22: GetOrInsertPrefix(k, v) with k of the map's width returns no error;
\* when the map stores k itself it returns the value stored and leaves the
\* map as it is; otherwise, also when the map stores a shorter prefix that
\* contains k, it returns v, Size grows by one and the map holds the pair
\* (k, v) beside the pairs it held.
C22_GetOrInsertExact ==
    [][(ret'.op = "GetOrInsertPrefix" /\ OfWidth(ipmap, ret'.arg))
       => /\ ret'.err = errNil
          /\ IF Stores(ipmap, ret'.arg)
             THEN /\ ret'.value = ValueOf(ipmap, ret'.arg)
                  /\ ipmap' = ipmap
             ELSE /\ \E v \in Values :
                        /\ CallGetOrInsertPrefix(ret'.arg, v)
                        /\ ret'.value = v
                        /\ StoredPairs(ipmap')
                             = StoredPairs(ipmap) \cup {[prefix |-> ret'.arg, value |-> v]}
                  /\ IPMapSize(ipmap') = IPMapSize(ipmap) + 1]_vars

\* GetOrInsertPrefix(k, v) inserted k as the second entry of a map whose
\* first entry is a shorter prefix that contains k, with another value than
\* the one returned.
C22_Witness ==
    /\ ret.op = "GetOrInsertPrefix"
    /\ ret.err = errNil
    /\ mapOps = 2
    /\ IPMapSize(ipmap) = 2
    /\ Stores(ipmap, ret.arg)
    /\ \E n \in Containing(ipmap, ret.arg) :
          n # ret.arg /\ ValueOf(ipmap, n) # ret.value
--------------------------------------------------------------------------
\* C23: InsertOrUpdatePrefix(k, v) with k of the map's width returns no
\* error; when the map stores k it holds afterwards (k, v) in the place of
\* k's pair, with the same Size and every other pair as before; when it does
\* not, it holds (k, v) beside the pairs it held and Size has grown by one.
C23_InsertOrUpdate ==
    [][(ret'.op = "InsertOrUpdatePrefix" /\ OfWidth(ipmap, ret'.arg))
       => /\ ret'.err = errNil
          /\ \E v \in Values :
                /\ CallInsertOrUpdatePrefix(ret'.arg, v)
                /\ StoredPairs(ipmap')
                     = { e \in StoredPairs(ipmap) : e.prefix # ret'.arg }
                       \cup {[prefix |-> ret'.arg, value |-> v]}
          /\ IPMapSize(ipmap')
               = IF Stores(ipmap, ret'.arg) THEN IPMapSize(ipmap)
                 ELSE IPMapSize(ipmap) + 1]_vars

\* InsertOrUpdatePrefix(k, v) was the second call on a map that holds two
\* entries after it, k with the value v and a shorter prefix that contains k
\* with the other value.
C23_Witness ==
    /\ ret.op = "InsertOrUpdatePrefix"
    /\ ret.err = errNil
    /\ mapOps = 2
    /\ IPMapSize(ipmap) = 2
    /\ Stores(ipmap, ret.arg)
    /\ \E n \in Containing(ipmap, ret.arg) :
          n # ret.arg /\ ValueOf(ipmap, n) # ValueOf(ipmap, ret.arg)
--------------------------------------------------------------------------
\* The pairs Iterate or Aggregate, whichever ret.op names, comes to with a
\* callback that returns true always.
FullWalk ==
    IF ret.op = "Iterate" THEN Iterate(ipmap, 0).visited
    ELSE Aggregate(ipmap, 0).visited

\* C24: in Iterate and Aggregate, a callback that returns false at its call
\* number n is called with the first n pairs of the traversal and no more,
\* and the traversal returns false; a callback that returns true at every
\* call is called with every pair (for Iterate: each stored pair once) and
\* the traversal returns true.
C24_StopsAtFalse ==
    ret.op \in {"Iterate", "Aggregate"}
    => The({ IF ret.limit \in 1..Len(full)
             THEN /\ ret.visited = SubSeq(full, 1, ret.limit)
                  /\ ~ret.ok
             ELSE /\ ret.visited = full
                  /\ ret.ok
                  /\ ret.op = "Iterate"
                     => /\ VisitedPairs = StoredPairs(ipmap)
                        /\ Len(full) = IPMapSize(ipmap) :
             full \in { FullWalk } })

\* Aggregate was called on a map it visits as two pairs or more, with a
\* callback that returns false at its first call: one pair was visited.
C24_Witness ==
    /\ ret.op = "Aggregate"
    /\ ret.limit = 1
    /\ Len(ret.visited) = 1
    /\ ~ret.ok
    /\ Len(Aggregate(ipmap, 0).visited) >= 2
--------------------------------------------------------------------------
\* C27: NetworkAddr(n) is n.IP with every bit at or beyond the prefix length
\* cleared, also for an n whose IP has such bits set, and BroadcastAddr(n) is
\* that address with all those bits set.
C27_NetworkAndBroadcastAddr ==
    LET n == call.args[1]
    IN  /\ call.fn = "NetworkAddr" => call.out = MaskIP(n.IP, n.ones, n.bits)
        /\ call.fn = "BroadcastAddr"
           => /\ call.out = MaskIP(n.IP, n.ones, n.bits) + Pow2(n.bits - n.ones) - 1
              /\ \A k \in 0..(n.bits - 1) :
                    BitAt(call.out, k, n.bits)
                      = IF k < n.ones THEN BitAt(n.IP, k, n.bits) ELSE 1
--------------------------------------------------------------------------
\* Every address of n is one of m.
Inside(n, m) == AddrsOf(n) \subseteq AddrsOf(m)

\* What netDifference(a, b) returned is a - b in CIDRs: pairwise disjoint,
\* each inside a and disjoint from b, none with a mask longer than the
\* address (no host prefix was split), together the addresses of a not in b.
IsDifference(a, b, out) ==
    /\ \A i \in 1..Len(out) :
          /\ out[i].bits = a.bits
          /\ out[i].ones <= out[i].bits
          /\ MaskIP(out[i].IP, out[i].ones, out[i].bits) = out[i].IP
          /\ Inside(out[i], a)
          /\ AddrsOf(out[i]) \cap AddrsOf(b) = {}
          /\ \A j \in 1..Len(out) : i # j => AddrsOf(out[i]) \cap AddrsOf(out[j]) = {}
    /\ UNION { AddrsOf(out[i]) : i \in 1..Len(out) } = AddrsOf(a) \ AddrsOf(b)

--------------------------------------------------------------------------
\* The lengths in bits of the addresses of the CIDRs of a set.
WidthsOf(s) == { walk(s.heap, s.tree)[i].bits : i \in 1..Len(walk(s.heap, s.tree)) }

\* C25: an IPSet holds CIDRs of one family only, and InsertNet of a CIDR of
\* another family than the one it holds leaves it as it is.
C25_OneFamily ==
    [][/\ Cardinality(WidthsOf(Me2)) <= 1
       /\ \A n \in AlgNets \cup WideNets :
             (MixedInsertNet(n) /\ WidthsOf(Me) # {} /\ n.bits \notin WidthsOf(Me))
             => Me2 = Me]_vars
--------------------------------------------------------------------------
\* The prefix of a map has a bit set at or beyond its length.
HasHostBits(prefix) ==
    prefix.IP.ip % Pow2(ByteBits * prefix.IP.len - prefix.ones) # 0

\* C26: InsertPrefix of a prefix with a bit set at or beyond its length
\* returns an error and stores nothing, and InsertNet of such a prefix does
\* not add it to the set.
C26_HostBitsRejected ==
    [][/\ (ret'.op = "InsertPrefix" /\ ret' # ret /\ HasHostBits(ret'.arg))
          => /\ ret'.err # errNil
             /\ ipmap' = ipmap
       /\ \A n \in HostNets :
             (HostInsertNet(n) /\ MaskIP(n.IP, n.ones, n.bits) # n.IP)
             => walk(heap', tree') = walk(heap, tree)]_vars
--------------------------------------------------------------------------
\* C28: MatchPrefix and Match return a nil prefix and a nil value when the
\* query is nil or not of the map's width, or no stored prefix contains it.
C28_NoMatchIsNil ==
    (/\ ret.op \in {"MatchPrefix", "Match"}
     /\ \/ ~OfWidth(ipmap, ret.arg)
        \/ Containing(ipmap, ret.arg) = {})
    => /\ ret.prefix = nilPrefix
       /\ ret.value = nilValue
--------------------------------------------------------------------------
\* C31: canCombineNets(a, b), in either order of the two, returns ok exactly
\* when a and b have the same length, other addresses and are the two halves
\* of one prefix; the CIDR returned with ok has the length a.length - 1, no
\* bit set at or beyond its length, and covers the addresses of a and of b
\* and no other.
C31_CanCombineNets ==
    call.fn = "canCombineNets"
    => The({ /\ call.out.ok
                <=> /\ a.ones = b.ones
                    /\ a.IP # b.IP
                    /\ a.ones >= 1
                    /\ MaskIP(a.IP, a.ones - 1, a.bits) = MaskIP(b.IP, a.ones - 1, a.bits)
             /\ call.out.ok
                => /\ call.out.net.ones = a.ones - 1
                   /\ MaskIP(call.out.net.IP, call.out.net.ones, call.out.net.bits)
                        = call.out.net.IP
                   /\ AddrsOf(call.out.net) = AddrsOf(a) \cup AddrsOf(b) :
             a \in { call.args[1] }, b \in { call.args[2] } })
--------------------------------------------------------------------------
\* C32: containsNet(a, b) is true exactly when a and b have the same width,
\* a is not longer than b and the first a.length bits of the two agree; so
\* it is true of a and a, and false of prefixes of two widths.
C32_ContainsNet ==
    call.fn = "containsNet"
    => The({ call.out
               <=> /\ a.bits = b.bits
                   /\ a.ones <= b.ones
                   /\ MaskIP(a.IP, a.ones, a.bits) = MaskIP(b.IP, a.ones, a.bits) :
             a \in { call.args[1] }, b \in { call.args[2] } })
--------------------------------------------------------------------------
(* InsertNet of a CIDR that the set already holds.                         *)

\* Some node of the tree holds a CIDR that contains n: every address of n is
\* an address of the CIDR.
HeldBy(s, n) ==
    \E i \in SubtreeNodes(s.heap, s.tree) : Inside(n, s.heap[i].net)

--------------------------------------------------------------------------
(* The loop of InsertNet.                                                  *)

\* C34: for every set and every CIDR n the loop of InsertNet(n) ends, after
\* n.length + 1 passes at most: every pass after the first inserts a CIDR with
\* a shorter mask than the pass before, which contains the one of the pass
\* before; every pass but the last linked its node and combined it with the
\* node before or after it, and the last pass combined its node with neither.
C34_InsertNetLoopEnds ==
    \A n \in Nets :
        The({ /\ Len(ps) >= 1
              /\ Len(ps) <= n.ones + 1
              /\ Len(ps) = InsertNetLoop(heap, tree, n, 1).passes
              /\ ps[1].net = n
              /\ \A i \in 2..Len(ps) :
                    /\ ps[i].net.ones < ps[i - 1].net.ones
                    /\ Inside(ps[i - 1].net, ps[i].net)
              /\ \A i \in 1..(Len(ps) - 1) :
                    ps[i].linked /\ (ps[i].prev \/ ps[i].next)
              /\ ~ps[Len(ps)].prev /\ ~ps[Len(ps)].next :
              ps \in { InsertNetPasses(heap, tree, n) } })

\* A set and a CIDR whose InsertNet takes three passes.
C34_Witness ==
    \E n \in Nets : Len(InsertNetPasses(heap, tree, n)) >= 3
--------------------------------------------------------------------------
(* RemoveNet of a CIDR inside a node's CIDR.                               *)

\* C35: RemoveNet(r) on a set where the CIDR of a node m contains r and is
\* longer than r puts the CIDRs of netDifference(m, r) in the place of m: the
\* tree has r.length - m.length - 1 nodes more and size() is smaller by the
\* number of addresses of r; RemoveNet(r) with r the CIDR of a node leaves one
\* node less.
C35_RemoveNetSplitsNode ==
    \A r \in Nets :
        The({ /\ \A m \in SubtreeNodes(heap, tree) :
                    Inside(r, heap[m].net) /\ heap[m].net.ones < r.ones =>
                       /\ numNodes(s.heap, s.tree)
                             = numNodes(heap, tree) + r.ones - heap[m].net.ones - 1
                       /\ size(s.heap, s.tree)
                             = size(heap, tree) - Pow2(r.bits - r.ones)
                       /\ Range(walk(s.heap, s.tree))
                             = (Range(walk(heap, tree)) \ {heap[m].net})
                                  \cup Range(netDifference(heap[m].net, r))
              /\ (\E m \in SubtreeNodes(heap, tree) : heap[m].net = r) =>
                    numNodes(s.heap, s.tree) = numNodes(heap, tree) - 1 :
              s \in { RemoveNet(Me, r) } })

--------------------------------------------------------------------------
(* A set of two families.                                                  *)

\* The addresses of the family of bits-long addresses that Contains finds
\* in the set.
FamilyCover(s, bits) ==
    { a \in 0..(Pow2(bits) - 1) : ContainsNet(s, ipToNet(a, bits)) }

\* The addresses of a CIDR of either family.
FamilyAddrs(n) ==
    { a \in 0..(Pow2(n.bits) - 1) : IPNetContains(n, a, n.bits) }

\* No two nodes of the set hold CIDRs of one family with an address in common.
NoOverlap(s) ==
    \A i, j \in SubtreeNodes(s.heap, s.tree) :
        (i # j /\ s.heap[i].net.bits = s.heap[j].net.bits)
        => FamilyAddrs(s.heap[i].net) \cap FamilyAddrs(s.heap[j].net) = {}

\* The family that n is not of.
OtherFamily(n) == IF n.bits = AddrBits THEN WideBits ELSE AddrBits

\* C36: in a set that holds CIDRs of two families, InsertNet(n) leaves every
\* address of n contained and no two nodes overlapping, RemoveNet(n) leaves
\* no address of n contained, and both leave the addresses of the other
\* family that the set contains as they were.
C36_FamiliesApart ==
    WidthsOf(Me) = {AddrBits, WideBits}
    => \A n \in AlgNets \cup WideNets :
          /\ The({ /\ FamilyAddrs(n) \subseteq FamilyCover(s, n.bits)
                   /\ NoOverlap(s)
                   /\ FamilyCover(s, OtherFamily(n)) = FamilyCover(Me, OtherFamily(n)) :
                   s \in { InsertNet(Me, n) } })
          /\ The({ /\ FamilyAddrs(n) \cap FamilyCover(s, n.bits) = {}
                   /\ FamilyCover(s, OtherFamily(n)) = FamilyCover(Me, OtherFamily(n)) :
                   s \in { RemoveNet(Me, n) } })
--------------------------------------------------------------------------
\* C37: expandNet(n, limit) returns min(limit, 2^30, 2^(bits - ones))
\* addresses, the i-th from 0 being n.IP + i with no wrap to the address 0,
\* and every one of them an address of n.
C37_ExpandNet ==
    call.fn = "expandNet"
    => The({ /\ Len(call.out) = Min(limit, Min(MaxExpand, Pow2(n.bits - n.ones)))
             /\ \A i \in 1..Len(call.out) :
                   /\ call.out[i] = n.IP + (i - 1)
                   /\ IPNetContains(n, call.out[i], n.bits) :
             n \in { call.args[1] }, limit \in { call.args[2] } })
--------------------------------------------------------------------------
\* C38: incrementIP(ip) returns an address of as many bytes as ip that is
\* ip + 1 modulo 2^(8 * len(ip)), so the address of all ones gives the one of
\* all zeros, and the bytes of ip are after the call what they were before.
C38_IncrementIP ==
    call.fn = "incrementIP"
    => The({ /\ Len(call.out.result) = Len(ip)
             /\ bytesValue(call.out.result)
                   = (bytesValue(ip) + 1) % Pow2(ByteBits * Len(ip))
             /\ bytesValue(call.out.result)
                   = incrementIP(bytesValue(ip), ByteBits * Len(ip))
             /\ (\A i \in 1..Len(ip) : ip[i] = Pow2(ByteBits) - 1)
                   => \A i \in 1..Len(ip) : call.out.result[i] = 0
             /\ call.out.ip = ip :
             ip \in { call.args[1] } })

\* incrementIP was called on an address of the longer family whose last two
\* bytes are all ones and whose first is not: the carry runs through two
\* bytes and stops at the first.
C38_Witness ==
    /\ call.fn = "incrementIP"
    /\ Len(call.args[1]) = IPv6len
    /\ call.args[1][IPv6len] = Pow2(ByteBits) - 1
    /\ call.args[1][IPv6len - 1] = Pow2(ByteBits) - 1
    /\ call.args[1][1] # Pow2(ByteBits) - 1
    /\ call.out.result[1] = call.args[1][1] + 1
    /\ call.out.result[IPv6len] = 0
====
